---------------------------- MODULE Spec2Model ----------------------------
(***************************************************************************)
(* A model of the pure and stateful cores of LLGL that the specification   *)
(* makes promises about:                                                   *)
(*                                                                         *)
(*   - the MIP-map / extent arithmetic of Renderer/TextureFlags.cpp,       *)
(*   - the UTF8String container of Core/UTF8String.cpp and                 *)
(*     Container/UTF8String.h, and its operations with wide arguments,     *)
(*   - the display list and display modes of Platform/Linux and            *)
(*     Platform/Android,                                                   *)
(*   - the sample count negotiation of ExampleBase,                        *)
(*   - the framebuffer height and swap interval of OpenGL/GLSwapChain.cpp, *)
(*   - the command recording of the Mapping and Texturing examples and of  *)
(*     the dual-source-blending test,                                      *)
(*   - Path::Sanitize of Platform/Path.h,                                  *)
(*   - the resolution validation of Renderer/RenderTarget.cpp,             *)
(*   - the context creation of OpenGL/Platform/Android/AndroidGLContext.   *)
(*                                                                         *)
(* Every part has its own specification (TexSpec, StringSpec, ConvSpec,    *)
(* DisplayListSpec, DisplayModeSpec, SampleSpec, SwapChainSpec, VsyncSpec, *)
(* RecordSpec, PathSpec, RenderTargetSpec, AndroidContextSpec,             *)
(* WideStringSpec); Spec is their union.  A part's actions leave the other *)
(* parts' variables unchanged.                                             *)
(***************************************************************************)
EXTENDS Integers, Sequences, FiniteSets, TLC

VARIABLES
    \* ---- texture arithmetic ------------------------------------------
    textureDesc,    \* the TextureDescriptor the functions are applied to
    log2OfZero,     \* what static_cast<uint32_t>(std::log2(0u)) yields in this build
    call,           \* the function last called ("none" before any call)
    mipLevel,       \* the mipLevel argument of the last call
    ret,            \* the value the last call returned
    subresource,    \* the TextureSubresource argument of the last call
    \* ---- UTF8String ---------------------------------------------------
    str,            \* str[i] is data_ of string object i, a sequence of bytes
    wide,           \* the wide string a UTF8String is constructed from
    utf16,          \* what the last to_utf16() returned
    op,             \* the kind of operation last executed on the strings
    \* ---- Display list (Platform/Linux/LinuxDisplay.cpp) -----------------
    screenCount,        \* what ScreenCount(dpy) returns now
    defaultScreen,      \* what DefaultScreen(dpy) returns
    displayObjects,     \* the LinuxDisplay objects alive: address |-> screen_
    g_displayList,      \* the addresses the unique_ptrs of g_displayList own
    g_displayRefList,   \* the addresses in g_displayRefList
    g_primaryDisplay,   \* the address in g_primaryDisplay, or NullDisplay
    displayCall,        \* the last step: a hot-plug or the function called
    displayRet,         \* what the last GetList / GetPrimary returned
    \* ---- Display modes (LinuxDisplay.cpp, AndroidDisplay.cpp) -----------
    scrSizes,           \* the screen sizes XRRSizes reports for the screen
    scrRates,           \* scrRates[i]: the rates XRRRates reports for size i
    screenConfig,       \* the mode the screen is in: what GetDisplayMode returns
    modeCall,           \* the function last called on the display
    modeArg,            \* the displayMode argument of the last SetDisplayMode
    modeRet,            \* what the last call returned
    \* ---- Sample negotiation (ExampleBase.cpp, GLSwapChain.cpp) ----------
    rendererID,             \* renderer->GetRendererID()
    maxColorBufferSamples,  \* GetRenderingCaps().limits.maxColorBufferSamples
    g_Config,               \* g_Config: the samples the program was asked for
    samples_,               \* ExampleBase::samples_
    swapChainDesc,          \* the descriptor passed to CreateSwapChain
    pixelFormat,            \* GLPixelFormat of the GLSwapChain created
    swapChainSamples,       \* the samples the swap chain was created with
    multiSampleEnabled,     \* pipelineDesc.rasterizer.multiSampleEnabled
    pipelineSamples,        \* the sample count CreatePipelines worked with
    examplePc,              \* where the example program stands
    \* ---- GLSwapChain (GLSwapChain.cpp) ----------------------------------
    swapChains,         \* swapChains[i]: the i-th GLSwapChain, or NoSwapChain
    numContexts,        \* the GL contexts the context manager has allocated
    stateMngrHeight,    \* stateMngrHeight[c]: the framebuffer height the state
                        \* manager of GL context c tracks
    currentSwapChain,   \* the swap chain whose context is current, 0 for none
    currentStateMngr,   \* the context whose state manager GLStateManager::Get()
                        \* returns, 0 before the first context is current
    swapCall,           \* the operation last called on a swap chain
    swapIntervals,      \* swapIntervals[c]: the swap interval of GL context c
    vsyncRet,           \* what the last SetVsyncInterval returned
    \* ---- The calls of the example programs (Mapping/Example.cpp, ...) ---
    app,                \* the program that runs
    program,            \* the calls the program still makes before it returns
                        \* to its main loop
    frame,              \* the frames drawn
    lastCall,           \* the call made last
    cmdState,           \* the command buffer: initial, recording, executable
    encoded,            \* the commands encoded since Begin
    renderPasses,       \* render passes begun and not ended
    pipelineSet,        \* SetPipelineState was encoded since Begin
    contentBuffer,      \* contentBuffer[i]: element i of the content buffer
    mapping,            \* the outstanding mapping of the content buffer
    dstTextures,        \* dstTextures[t][p]: pixel p of destination texture t
    dstTextureIndex,    \* Example_Mapping::dstTextureIndex
    resourceIndex,      \* Example_Texturing::resourceIndex
    srcColor0,          \* the colour ModifyTextureContent read last
    cpuWritten,         \* cpuWritten[i]: what the CPU wrote to element i since
                        \* the last WriteDiscard mapping
    deviceWritten,      \* the elements the device wrote since the CPU did
    \* ---- Path (Platform/Path.h) -----------------------------------------
    pathArg,            \* the UTF8String passed to Path::Sanitize
    pathRet,            \* the UTF8String it returned
    pathOp,             \* the call made last
    \* ---- RenderTarget (Renderer/RenderTarget.cpp) -----------------------
    rtResolution,       \* GetResolution() of the render target
    rtOp,               \* the function called last on the render target
    rtArg,              \* its arguments
    rtOutcome,          \* "return", or "trap" when LLGL_TRAP ended the call
    \* ---- AndroidGLContext (OpenGL/Platform/Android/AndroidGLContext.cpp) --
    eglConfigs,         \* the attribute lists eglChooseConfig finds a configuration for
    eglVersions,        \* the GLES versions eglCreateContext creates a context for
    eglDebugBuild,      \* LLGL_DEBUG is defined
    eglPixelFormat,     \* the pixelFormat argument of CreateContext
    eglProfile,         \* the profile argument of CreateContext
    eglPc,              \* the position of CreateContext
    eglSamples_,        \* AndroidGLContext::samples_
    eglSelectConfigRet, \* what SelectConfig returned
    eglQueries,         \* the attribute lists passed to eglChooseConfig, in order
    eglMajor,           \* the local major of CreateContext
    eglMinor,           \* the local minor of CreateContext
    eglAttempts,        \* the versions passed to CreateEGLContextForESVersion, in order
    context_,           \* AndroidGLContext::context_
    eglError,           \* the message of the LLGL_TRAP that ended CreateContext
    \* ---- UTF8String and wide strings (Core/UTF8String.cpp) ----------------
    wsData,             \* data_ of the string s
    wsBefore,           \* data_ of s before the call
    wsWide,             \* the wide argument w of the call
    wsOp,               \* the member function called
    wsRet               \* what compare returned

texVars == << textureDesc, log2OfZero, call, mipLevel, ret, subresource >>
strVars == << str, wide, utf16, op >>
listVars == << screenCount, defaultScreen, displayObjects, g_displayList,
               g_displayRefList, g_primaryDisplay, displayCall, displayRet >>
modeVars == << scrSizes, scrRates, screenConfig, modeCall, modeArg, modeRet >>
sampleVars == << rendererID, maxColorBufferSamples, g_Config, samples_, swapChainDesc,
                 pixelFormat, swapChainSamples, multiSampleEnabled, pipelineSamples,
                 examplePc >>
vsyncVars == << swapIntervals, vsyncRet >>
swapVars == << swapChains, numContexts, stateMngrHeight, currentSwapChain,
               currentStateMngr, swapCall, swapIntervals, vsyncRet >>
recVars == << app, program, frame, lastCall, cmdState, encoded, renderPasses,
              pipelineSet, contentBuffer, mapping, dstTextures, dstTextureIndex,
              resourceIndex, srcColor0, cpuWritten, deviceWritten >>
pathVars == << pathArg, pathRet, pathOp >>
rtVars == << rtResolution, rtOp, rtArg, rtOutcome >>
eglVars == << eglConfigs, eglVersions, eglDebugBuild, eglPixelFormat, eglProfile, eglPc, eglSamples_, eglSelectConfigRet, eglQueries, eglMajor, eglMinor, eglAttempts, context_, eglError >>
wideVars == << wsData, wsBefore, wsWide, wsOp, wsRet >>
vars    == << textureDesc, log2OfZero, call, mipLevel, ret, subresource,
              str, wide, utf16, op,
              screenCount, defaultScreen, displayObjects, g_displayList,
              g_displayRefList, g_primaryDisplay, displayCall, displayRet,
              scrSizes, scrRates, screenConfig, modeCall, modeArg, modeRet,
              rendererID, maxColorBufferSamples, g_Config, samples_, swapChainDesc,
              pixelFormat, swapChainSamples, multiSampleEnabled, pipelineSamples,
              examplePc,
              swapChains, numContexts, stateMngrHeight, currentSwapChain,
              currentStateMngr, swapCall, swapIntervals, vsyncRet,
              app, program, frame, lastCall, cmdState, encoded, renderPasses,
              pipelineSet, contentBuffer, mapping, dstTextures, dstTextureIndex,
              resourceIndex, srcColor0, cpuWritten, deviceWritten,
              pathArg, pathRet, pathOp,
              rtResolution, rtOp, rtArg, rtOutcome,
              eglConfigs, eglVersions, eglDebugBuild, eglPixelFormat, eglProfile, eglPc, eglSamples_, eglSelectConfigRet, eglQueries, eglMajor, eglMinor, eglAttempts, context_, eglError,
              wsData, wsBefore, wsWide, wsOp, wsRet >>

\* the variables of the other parts, which a part's actions leave alone
notTex    == << strVars, listVars, modeVars, sampleVars, swapVars, recVars, pathVars, rtVars, eglVars, wideVars >>
notStr    == << texVars, listVars, modeVars, sampleVars, swapVars, recVars, pathVars, rtVars, eglVars, wideVars >>
notList   == << texVars, strVars, modeVars, sampleVars, swapVars, recVars, pathVars, rtVars, eglVars, wideVars >>
notMode   == << texVars, strVars, listVars, sampleVars, swapVars, recVars, pathVars, rtVars, eglVars, wideVars >>
notSample == << texVars, strVars, listVars, modeVars, swapVars, recVars, pathVars, rtVars, eglVars, wideVars >>
notSwap   == << texVars, strVars, listVars, modeVars, sampleVars, recVars, pathVars, rtVars, eglVars, wideVars >>
notRec    == << texVars, strVars, listVars, modeVars, sampleVars, swapVars, pathVars, rtVars, eglVars, wideVars >>
notPath   == << texVars, strVars, listVars, modeVars, sampleVars, swapVars, recVars, rtVars, eglVars, wideVars >>
notRt == << texVars, strVars, listVars, modeVars, sampleVars, swapVars, recVars, pathVars, eglVars, wideVars >>
notEgl == << texVars, strVars, listVars, modeVars, sampleVars, swapVars, recVars, pathVars, rtVars, wideVars >>
notWide == << texVars, strVars, listVars, modeVars, sampleVars, swapVars, recVars, pathVars, rtVars, eglVars >>

----------------------------------------------------------------------------
(* Bounds of the model *)

\* extents have components in 0..MaxExtent, and 64 (the spec's scenario)
MaxExtent == 3
\* MIP levels asked for are 0..MaxLevel
MaxLevel == 7
\* the largest arrayLayers of a descriptor
MaxLayers == 7
\* the mipLevels field of a descriptor is in 0..MaxDescMips
MaxDescMips == 2
\* the numMipLevels field of a subresource is in 0..MaxSubMips
MaxSubMips == 2

\* string 1 holds at most MaxStrLen bytes of payload, string 2 at most MaxRhsLen
MaxStrLen == 3
MaxRhsLen == 1
\* a StringView or WStringView argument of a container operation has at most
\* MaxViewLen characters, and append(count, ch) a count of at most MaxViewLen
MaxViewLen == 1
\* the wide strings converted to UTF-8 and back have at most MaxWLen characters
MaxWLen == 2

\* at most MaxScreens screens are attached to the X display
MaxScreens == 2
\* XRRSizes reports at most MaxSizes screen sizes
MaxSizes == 2

----------------------------------------------------------------------------
(* Renderer/TextureFlags.cpp *)

TextureTypes ==
    { "Texture1D", "Texture2D", "Texture3D", "TextureCube", "Texture1DArray",
      "Texture2DArray", "TextureCubeArray", "Texture2DMS", "Texture2DMSArray" }

Extent3D(x, y, z) == [x |-> x, y |-> y, z |-> z]

\* Extent3D{} : the value-initialised extent GetMipExtent returns out of range
ZeroExtent == Extent3D(0, 0, 0)

Max2(a, b) == IF a >= b THEN a ELSE b

RECURSIVE FloorLog2(_)
\* static_cast<std::uint32_t>(std::log2(n)) for n >= 1: the cast truncates, and
\* the double result is exact enough for every 32 bit n
FloorLog2(n) == IF n <= 1 THEN 0 ELSE 1 + FloorLog2(n \div 2)

\* static_cast<std::uint32_t>(std::log2(maxSize)); log2(0) is -inf, whose
\* conversion to an unsigned integer is undefined: the build decides (log2OfZero).
\* A std::uint32_t is held as a representative of its residue modulo 2^32:
\* -1 stands for 0xFFFFFFFF, so that 1u + 0xFFFFFFFF is 0.
Log2Size(maxSize) == IF maxSize = 0 THEN log2OfZero ELSE FloorLog2(maxSize)

NumMipLevelsNoPlusOne(width, height, depth) ==
    Log2Size(Max2(width, Max2(height, depth)))

NumMipLevels(width, height, depth) ==
    1 + Log2Size(Max2(width, Max2(height, depth)))

NumMipLevelsTypeMultiSampleMipMapped(type, extent) ==
    IF type \in { "Texture1D", "Texture1DArray" }
        THEN NumMipLevels(extent.x, 1, 1)
        ELSE IF type = "Texture3D"
            THEN NumMipLevels(extent.x, extent.y, extent.z)
            ELSE NumMipLevels(extent.x, extent.y, 1)

\* NumMipLevels(type, extent); height and depth default to 1
NumMipLevelsType(type, extent) ==
    CASE type = "Texture1D"        -> NumMipLevels(extent.x, 1, 1)
      [] type = "Texture2D"        -> NumMipLevels(extent.x, extent.y, 1)
      [] type = "Texture3D"        -> NumMipLevels(extent.x, extent.y, extent.z)
      [] type = "TextureCube"      -> NumMipLevels(extent.x, extent.y, 1)
      [] type = "Texture1DArray"   -> NumMipLevels(extent.x, 1, 1)
      [] type = "Texture2DArray"   -> NumMipLevels(extent.x, extent.y, 1)
      [] type = "TextureCubeArray" -> NumMipLevels(extent.x, extent.y, 1)
      [] type = "Texture2DMS"      -> 1
      [] type = "Texture2DMSArray" -> 1
      [] OTHER                     -> 0

\* NumMipLevels(textureDesc)
NumMipLevelsDesc(desc) ==
    IF desc.mipLevels = 0
        THEN NumMipLevelsType(desc.type, desc.extent)
        ELSE desc.mipLevels

IsArrayTexture(type) ==
    type \in { "Texture1DArray", "Texture2DArray", "TextureCubeArray", "Texture2DMSArray" }

IsMultiSampleTexture(type) == type \in { "Texture2DMS", "Texture2DMSArray" }

IsCubeTexture(type) == type \in { "TextureCube", "TextureCubeArray" }

MipExtentNoClamp(extent, level) == extent \div (2 ^ level)

\* std::max(1u, extent >> mipLevel), mipLevel < 32
MipExtent(extent, level) == Max2(1, extent \div (2 ^ level))

\* the extent of an in-range level, GetMipExtent(type, extent, mipLevel)
MipExtentOfType(type, extent, level) ==
    CASE type = "Texture1D"        -> Extent3D(MipExtent(extent.x, level), 1, 1)
      [] type = "Texture2D"        -> Extent3D(MipExtent(extent.x, level), MipExtent(extent.y, level), 1)
      [] type = "Texture3D"        -> Extent3D(MipExtent(extent.x, level), MipExtent(extent.y, level), MipExtent(extent.z, level))
      [] type = "TextureCube"      -> Extent3D(MipExtent(extent.x, level), MipExtent(extent.y, level), extent.z)
      [] type = "Texture1DArray"   -> Extent3D(MipExtent(extent.x, level), extent.y, 1)
      [] type = "Texture2DArray"   -> Extent3D(MipExtent(extent.x, level), MipExtent(extent.y, level), extent.z)
      [] type = "TextureCubeArray" -> Extent3D(MipExtent(extent.x, level), MipExtent(extent.y, level), extent.z)
      [] type = "Texture2DMS"      -> Extent3D(extent.x, extent.y, 1)
      [] type = "Texture2DMSArray" -> Extent3D(extent.x, extent.y, extent.z)
      [] OTHER                     -> ZeroExtent

GetMipExtentNoRangeCheck(type, extent, level) == MipExtentOfType(type, extent, level)

\* GetMipExtent(type, extent, mipLevel)
GetMipExtent(type, extent, level) ==
    IF level < NumMipLevelsType(type, extent)
        THEN MipExtentOfType(type, extent, level)
        ELSE ZeroExtent

\* GetAlignedSize(size, alignment) of Core/CoreUtils.h: size rounded up to a
\* multiple of alignment
GetAlignedSize(size, alignment) ==
    ((size + alignment - 1) \div alignment) * alignment

\* the extent of an in-range level, GetMipExtent(textureDesc, mipLevel)
MipExtentOfDescShifted(desc, level) ==
    LET extent == desc.extent
        arrayLayers == desc.arrayLayers
    IN  CASE desc.type = "Texture1D"        -> Extent3D(MipExtent(extent.x, level), 1, 1)
          [] desc.type = "Texture2D"        -> Extent3D(MipExtent(extent.x, level), MipExtent(extent.y, level), 1)
          [] desc.type = "Texture3D"        -> Extent3D(MipExtent(extent.x, level), MipExtent(extent.y, level), MipExtent(extent.z, level))
          [] desc.type = "TextureCube"      -> Extent3D(MipExtent(extent.x, level), MipExtent(extent.y, level), 6)
          [] desc.type = "Texture1DArray"   -> Extent3D(MipExtent(extent.x, level), MipExtent(arrayLayers, level), 1)
          [] desc.type = "Texture2DArray"   -> Extent3D(MipExtent(extent.x, level), MipExtent(extent.y, level), MipExtent(arrayLayers, level))
          [] desc.type = "TextureCubeArray" -> Extent3D(MipExtent(extent.x, level), MipExtent(extent.y, level), MipExtent(GetAlignedSize(arrayLayers, 6), level))
          [] desc.type = "Texture2DMS"      -> Extent3D(extent.x, extent.y, 1)
          [] desc.type = "Texture2DMSArray" -> Extent3D(extent.x, extent.y, arrayLayers)
          [] OTHER                          -> ZeroExtent

MipExtentOfDesc(desc, level) ==
    LET extent == desc.extent
        arrayLayers == desc.arrayLayers
    IN  CASE desc.type = "Texture1D"        -> Extent3D(MipExtent(extent.x, level), 1, 1)
          [] desc.type = "Texture2D"        -> Extent3D(MipExtent(extent.x, level), MipExtent(extent.y, level), 1)
          [] desc.type = "Texture3D"        -> Extent3D(MipExtent(extent.x, level), MipExtent(extent.y, level), MipExtent(extent.z, level))
          [] desc.type = "TextureCube"      -> Extent3D(MipExtent(extent.x, level), MipExtent(extent.y, level), 6)
          [] desc.type = "Texture1DArray"   -> Extent3D(MipExtent(extent.x, level), arrayLayers, 1)
          [] desc.type = "Texture2DArray"   -> Extent3D(MipExtent(extent.x, level), MipExtent(extent.y, level), arrayLayers)
          [] desc.type = "TextureCubeArray" -> Extent3D(MipExtent(extent.x, level), MipExtent(extent.y, level), GetAlignedSize(arrayLayers, 6))
          [] desc.type = "Texture2DMS"      -> Extent3D(extent.x, extent.y, 1)
          [] desc.type = "Texture2DMSArray" -> Extent3D(extent.x, extent.y, arrayLayers)
          [] OTHER                          -> ZeroExtent

\* GetMipExtent(textureDesc, mipLevel)
GetMipExtentDesc(desc, level) ==
    IF level < NumMipLevelsType(desc.type, desc.extent)
        THEN MipExtentOfDesc(desc, level)
        ELSE ZeroExtent

\* CalcTextureExtent(type, extent, numArrayLayers) of Renderer/TextureUtils.h:
\* the extent of the type with the array-layer count as its layer component
CalcTextureExtent(type, extent, numArrayLayers) ==
    CASE type = "Texture1D"        -> Extent3D(extent.x, 1, 1)
      [] type = "Texture2D"        -> Extent3D(extent.x, extent.y, 1)
      [] type = "Texture3D"        -> Extent3D(extent.x, extent.y, extent.z)
      [] type = "TextureCube"      -> Extent3D(extent.x, extent.y, numArrayLayers)
      [] type = "Texture1DArray"   -> Extent3D(extent.x, numArrayLayers, 1)
      [] type = "Texture2DArray"   -> Extent3D(extent.x, extent.y, numArrayLayers)
      [] type = "TextureCubeArray" -> Extent3D(extent.x, extent.y, numArrayLayers)
      [] type = "Texture2DMS"      -> Extent3D(extent.x, extent.y, 1)
      [] type = "Texture2DMSArray" -> Extent3D(extent.x, extent.y, numArrayLayers)
      [] OTHER                     -> ZeroExtent

\* NumMipTexels(type, extent, mipLevel)
NumMipTexels(type, extent, level) ==
    LET mipExtent == GetMipExtent(type, extent, level)
    IN  mipExtent.x * mipExtent.y * mipExtent.z

RECURSIVE SumMipTexels(_, _, _, _, _)
\* for_range(mipLevel, count) numTexels += NumMipTexels(type, extent, base + mipLevel),
\* the loop standing at iteration k
SumMipTexels(type, extent, base, count, k) ==
    IF k < count
        THEN NumMipTexels(type, extent, base + k) + SumMipTexels(type, extent, base, count, k + 1)
        ELSE 0

NumMipTexelsSubresourceFromOne(type, extent, sub) ==
    SumMipTexels(type, CalcTextureExtent(type, extent, sub.numArrayLayers),
                 sub.baseMipLevel, sub.numMipLevels, 1)

\* NumMipTexels(type, extent, subresource)
NumMipTexelsSubresource(type, extent, sub) ==
    SumMipTexels(type, CalcTextureExtent(type, extent, sub.numArrayLayers),
                 sub.baseMipLevel, sub.numMipLevels, 0)

\* ~0u, held as the representative -1 of its residue
AllMipLevels == -1

\* NumMipTexels(textureDesc, mipLevel)
NumMipTexelsDesc(desc, level) ==
    LET extent == CalcTextureExtent(desc.type, desc.extent, desc.arrayLayers)
    IN  IF level = AllMipLevels
            THEN SumMipTexels(desc.type, extent, 0, NumMipLevelsDesc(desc), 0)
            ELSE NumMipTexels(desc.type, extent, level)

----------------------------------------------------------------------------
(* The inputs of the texture functions *)

ExtentVals == (0 .. MaxExtent) \cup { 64 }

Extents == [x : ExtentVals, y : ExtentVals, z : ExtentVals]

\* the extents with no empty dimension
PositiveExtents == { e \in Extents : 0 \notin { e.x, e.y, e.z } }

LayerVals == { 1, 6, MaxLayers }

\* outcomes of converting -inf to std::uint32_t: 0, a large value (0x7FFFFFFE)
\* and 0xFFFFFFFF (held as -1)
UndefinedCastVals == { 0, 2147483646, -1 }

TextureDescriptors(extents) ==
    [type : TextureTypes, extent : extents, arrayLayers : LayerVals,
     mipLevels : 0 .. MaxDescMips]

\* TextureSubresource{ baseArrayLayer, numArrayLayers, baseMipLevel, numMipLevels }:
\* one layer or the six faces of a cube
TextureSubresources ==
    [baseArrayLayer : { 0 }, numArrayLayers : { 1, 6 },
     baseMipLevel : 0 .. MaxLevel, numMipLevels : 0 .. MaxSubMips]

\* no subresource was passed
NoSubresource ==
    [baseArrayLayer |-> 0, numArrayLayers |-> 1, baseMipLevel |-> 0, numMipLevels |-> 1]

TexIdle ==
    /\ textureDesc = [type |-> "Texture2D", extent |-> Extent3D(1, 1, 1),
                      arrayLayers |-> 1, mipLevels |-> 0]
    /\ log2OfZero = 0
    /\ call = "none"
    /\ mipLevel = 0
    /\ ret = 0
    /\ subresource = NoSubresource

\* a descriptor; where an extent has an empty dimension, log2(0) may be
\* evaluated and the build's outcome of the conversion is any of UndefinedCastVals
TexInit ==
    /\ \/ /\ textureDesc \in TextureDescriptors(PositiveExtents)
          /\ log2OfZero = 0
       \/ /\ textureDesc \in TextureDescriptors(Extents \ PositiveExtents)
          /\ log2OfZero \in UndefinedCastVals
    /\ call = "none"
    /\ mipLevel = 0
    /\ ret = 0
    /\ subresource = NoSubresource

CallNumMipLevels ==
    /\ call = "none"
    /\ call' = "NumMipLevels"
    /\ ret' = NumMipLevels(textureDesc.extent.x, textureDesc.extent.y, textureDesc.extent.z)
    /\ UNCHANGED << textureDesc, log2OfZero, mipLevel, subresource >>
    /\ UNCHANGED notTex

CallNumMipLevelsType ==
    /\ call = "none"
    /\ call' = "NumMipLevelsType"
    /\ ret' = NumMipLevelsType(textureDesc.type, textureDesc.extent)
    /\ UNCHANGED << textureDesc, log2OfZero, mipLevel, subresource >>
    /\ UNCHANGED notTex

CallNumMipLevelsDesc ==
    /\ call = "none"
    /\ call' = "NumMipLevelsDesc"
    /\ ret' = NumMipLevelsDesc(textureDesc)
    /\ UNCHANGED << textureDesc, log2OfZero, mipLevel, subresource >>
    /\ UNCHANGED notTex

CallGetMipExtent ==
    /\ call = "none"
    /\ \E level \in 0 .. MaxLevel :
        /\ mipLevel' = level
        /\ ret' = GetMipExtent(textureDesc.type, textureDesc.extent, level)
    /\ call' = "GetMipExtent"
    /\ UNCHANGED << textureDesc, log2OfZero, subresource >>
    /\ UNCHANGED notTex

CallGetMipExtentDesc ==
    /\ call = "none"
    /\ \E level \in 0 .. MaxLevel :
        /\ mipLevel' = level
        /\ ret' = GetMipExtentDesc(textureDesc, level)
    /\ call' = "GetMipExtentDesc"
    /\ UNCHANGED << textureDesc, log2OfZero, subresource >>
    /\ UNCHANGED notTex

CallNumMipTexelsSubresource ==
    /\ call = "none"
    /\ \E sub \in TextureSubresources :
        /\ subresource' = sub
        /\ ret' = NumMipTexelsSubresource(textureDesc.type, textureDesc.extent, sub)
    /\ call' = "NumMipTexelsSubresource"
    /\ UNCHANGED << textureDesc, log2OfZero, mipLevel >>
    /\ UNCHANGED notTex

\* NumMipTexels(textureDesc, mipLevel).  A descriptor whose level count comes
\* from the conversion of log2(0) makes the loop shift by 32 bits and more,
\* which is undefined: the sum is then any value.
CallNumMipTexelsDesc ==
    /\ call = "none"
    /\ \E level \in (0 .. MaxLevel) \cup { AllMipLevels } :
        /\ mipLevel' = level
        /\ IF level = AllMipLevels /\ NumMipLevelsDesc(textureDesc) > 32
              THEN ret' \in UndefinedCastVals
              ELSE ret' = NumMipTexelsDesc(textureDesc, level)
    /\ call' = "NumMipTexelsDesc"
    /\ UNCHANGED << textureDesc, log2OfZero, subresource >>
    /\ UNCHANGED notTex

TexNext ==
    \/ CallNumMipTexelsSubresource
    \/ CallNumMipTexelsDesc
    \/ CallNumMipLevels
    \/ CallNumMipLevelsType
    \/ CallNumMipLevelsDesc
    \/ CallGetMipExtent
    \/ CallGetMipExtentDesc


----------------------------------------------------------------------------
(* Container/UTF8String.h, Core/UTF8String.cpp *)

\* A byte is a number in 0..255; data_ is a sequence of bytes, the payload
\* followed by the NUL terminator.

RECURSIVE BitOr(_, _)
\* a | b on non-negative integers
BitOr(a, b) ==
    IF a = 0 THEN b
    ELSE IF b = 0 THEN a
    ELSE Max2(a % 2, b % 2) + 2 * BitOr(a \div 2, b \div 2)

\* static_cast<char>(x), as the byte it stores
ToChar(x) == x % 256

\* size(): data_.size() - 1
Size(data) == Len(data) - 1

\* the characters begin() .. end(), end() being data_.end() - 1
Payload(data) == SubSeq(data, 1, Len(data) - 1)

\* SmallVector::pop_back
PopBack(v) == SubSeq(v, 1, Len(v) - 1)

\* SmallVector::resize(size, ch)
VectorResize(v, size, ch) == [i \in 1 .. size |-> IF i <= Len(v) THEN v[i] ELSE ch]

\* UTF8String(): data_{ '\0' }, and clear()
clear == << 0 >>

\* GetUTF8CharCount(int c)
GetUTF8CharCount(c) ==
    IF c < 128 THEN 1
    ELSE IF c < 2047 THEN 2
    ELSE IF c < 65535 THEN 3
    ELSE 4

\* AppendUTF8Character(str, code)
AppendUTF8Character(v, code) ==
    IF code < 128 THEN
        Append(v, ToChar(code))
    ELSE IF code < 2047 THEN
        v \o << ToChar(BitOr(192, (code \div 64) % 32)),
                ToChar(BitOr(128, code % 64)) >>
    ELSE IF code < 65535 THEN
        v \o << ToChar(BitOr(224, (code \div 4096) % 16)),
                ToChar(BitOr(128, (code \div 64) % 64)),
                ToChar(BitOr(128, code % 64)) >>
    ELSE
        v \o << ToChar(BitOr(240, (code \div 262144) % 8)),
                ToChar(BitOr(128, (code \div 4096) % 64)),
                ToChar(BitOr(128, (code \div 64) % 64)),
                ToChar(BitOr(128, code % 64)) >>

RECURSIVE EncodeAll(_, _)
\* for (int c : s) AppendUTF8Character(utf8, c);
EncodeAll(v, s) ==
    IF s = << >> THEN v ELSE EncodeAll(AppendUTF8Character(v, Head(s)), Tail(s))

\* ConvertWStringViewToUTF8CharArray(s): the encoding and its NUL terminator
ConvertWStringViewToUTF8CharArray(s) == Append(EncodeAll(<< >>, s), 0)

\* ConvertStringViewToCharArray(str)
ConvertStringViewToCharArray(s) == Append(s, 0)

RECURSIVE UntilNul(_)
\* the characters of a NUL-terminated array: StringView{ const char* } and
\* WStringView{ const wchar_t* } end at the first NUL
UntilNul(s) ==
    IF s = << >> \/ Head(s) = 0 THEN << >> ELSE << Head(s) >> \o UntilNul(Tail(s))

resizeWithoutTerminator(data, size, ch) ==
    IF size # Size(data) THEN VectorResize(PopBack(data), size, ch) ELSE data

\* resize(size, ch)
resize(data, size, ch) ==
    IF size # Size(data)
        THEN Append(VectorResize(PopBack(data), size, ch), 0)
        ELSE data

\* append(count, ch)
append(data, count, ch) == resize(data, Size(data) + count, ch)

\* append(first, last)
appendRange(data, range) ==
    IF Len(range) > 0
        THEN Append(PopBack(data) \o range, 0)
        ELSE data

RECURSIVE DecodeFrom(_, _)
\* the loop of ConvertToUTF16WCharArray over StringView{ data, size }, the
\* iterator standing at index i of the buffer.  The terminator (index Len) can
\* be read; an iterator moved past end() never compares equal to it again and
\* the loop reads outside the buffer (overrun).
DecodeFrom(data, i) ==
    LET end == Len(data)
        stop(trap, overrun) == [trap |-> trap, overrun |-> overrun, chars |-> << >>]
        cons(w, rest) == [rest EXCEPT !.chars = << w >> \o rest.chars]
    IN  IF i = end THEN stop(FALSE, FALSE)
        ELSE IF i > end THEN stop(FALSE, TRUE)
        ELSE LET c == data[i]
             IN  IF c < 128 THEN
                     cons(c, DecodeFrom(data, i + 1))
                 ELSE IF c \div 32 = 6 THEN
                     LET w0 == c % 32
                         w1 == data[i + 1] % 64
                     IN  cons(BitOr(w0 * 32, w1), DecodeFrom(data, i + 2))
                 ELSE IF c \div 16 = 14 THEN
                     IF i + 2 > end THEN stop(FALSE, TRUE)
                     ELSE LET w0 == c % 16
                              w1 == data[i + 1] % 64
                              w2 == data[i + 2] % 64
                          IN  cons(BitOr(BitOr(w0 * 4096, w1 * 64), w2),
                                   DecodeFrom(data, i + 3))
                 ELSE stop(TRUE, FALSE)

\* ConvertToUTF16WCharArray(s): the decoded characters and the terminator, or
\* LLGL_TRAP
ConvertToUTF16WCharArray(data) ==
    LET r == DecodeFrom(data, 1)
    IN  IF r.trap \/ r.overrun THEN [r EXCEPT !.chars = << >>]
        ELSE [r EXCEPT !.chars = Append(r.chars, 0)]

\* to_utf16()
to_utf16(data) == ConvertToUTF16WCharArray(data)

NoUtf16 == [trap |-> FALSE, overrun |-> FALSE, chars |-> << >>]

----------------------------------------------------------------------------
(* The inputs of the string operations *)

\* char arguments: NUL and 'a'
Chars == { 0, 97 }

\* wchar_t arguments of the container's operations: NUL, 'a' and U+00E9
WChars == { 0, 97, 233 }

\* wchar_t arguments of the conversions: the ends of each encoding range
ConvWChars == { 0, 65, 127, 128, 2046, 2047, 2048, 65534, 65535, 65536 }

SeqsUpTo(S, n) == UNION { [1 .. k -> S] : k \in 0 .. n }

StringViews == SeqsUpTo(Chars, MaxViewLen)

WStringViews == SeqsUpTo(WChars, MaxViewLen)

Strings == { 1, 2 }

\* the payload string i may hold in the model
Cap(i) == IF i = 1 THEN MaxStrLen ELSE MaxRhsLen

Fits(i, data) == Size(data) <= Cap(i)

StrIdle ==
    /\ str = [i \in Strings |-> clear]
    /\ wide = << >>
    /\ utf16 = NoUtf16
    /\ op = "idle"

\* both strings default-constructed
StrInit ==
    /\ str = [i \in Strings |-> clear]
    /\ wide = << >>
    /\ utf16 = NoUtf16
    /\ op = "construct"

\* string i becomes data
Store(i, data) ==
    /\ Fits(i, data)
    /\ str' = [str EXCEPT ![i] = data]

\* the operation executed was of this kind
Did(kind) ==
    /\ op' = kind
    /\ UNCHANGED << wide, utf16 >>
    /\ UNCHANGED notStr

\* UTF8String(const StringView&), UTF8String(const char*)
ConstructFromStringView(i) ==
    \E s \in StringViews :
        \/ /\ Store(i, ConvertStringViewToCharArray(s))
           /\ Did("construct")
        \/ /\ Store(i, ConvertStringViewToCharArray(UntilNul(s)))
           /\ Did("construct")

\* UTF8String(const WStringView&), UTF8String(const wchar_t*)
ConstructFromWStringView(i) ==
    \E w \in WStringViews :
        \/ /\ Store(i, ConvertWStringViewToUTF8CharArray(w))
           /\ Did("construct")
        \/ /\ Store(i, ConvertWStringViewToUTF8CharArray(UntilNul(w)))
           /\ Did("construct")

\* UTF8String(const UTF8String&): string i constructed as a copy of string j
CopyConstruct(i, j) ==
    /\ i # j
    /\ Store(i, str[j])
    /\ Did("copy")

\* what a move leaves in the two strings: data_{ std::move(rhs.data_) }, then
\* rhs.clear(); with i = j the clear is the last write
Moved(i, j) == [[str EXCEPT ![i] = str[j]] EXCEPT ![j] = clear]

\* UTF8String(UTF8String&&): string i constructed from string j
MoveConstruct(i, j) ==
    /\ i # j
    /\ Fits(i, str[j])
    /\ str' = Moved(i, j)
    /\ Did("move")

\* operator = (const UTF8String&)
CopyAssign(i, j) ==
    /\ Store(i, str[j])
    /\ Did("copy")

\* operator = (UTF8String&&)
MoveAssign(i, j) ==
    /\ Fits(i, str[j])
    /\ str' = Moved(i, j)
    /\ Did("move")

\* operator += (const UTF8String&).  With i = j the range appended lies in the
\* buffer that insert() grows: SmallVector may have moved it, and what is
\* copied is then any bytes.
AddUTF8String(i, j) ==
    \E range \in (IF i = j THEN [1 .. Size(str[j]) -> Chars] ELSE { }) \cup { Payload(str[j]) } :
        /\ Store(i, appendRange(str[i], range))
        /\ Did("append")

\* operator += (const StringView&)
AddStringView(i) ==
    \E s \in StringViews :
        /\ Store(i, appendRange(str[i], s))
        /\ Did("append")

\* operator += (const char*)
AddCString(i) ==
    \E s \in StringViews :
        /\ Store(i, appendRange(str[i], UntilNul(s)))
        /\ Did("append")

\* operator += (char)
AddChar(i) ==
    \E chr \in Chars :
        /\ Store(i, append(str[i], 1, chr))
        /\ Did("append")

\* operator += (const WStringView&): the array appended is the whole
\* SmallVector the conversion returned
AddWStringView(i) ==
    \E w \in WStringViews :
        /\ Store(i, appendRange(str[i], ConvertWStringViewToUTF8CharArray(w)))
        /\ Did("append")

\* operator += (const wchar_t*)
AddWCString(i) ==
    \E w \in WStringViews :
        /\ Store(i, appendRange(str[i], ConvertWStringViewToUTF8CharArray(UntilNul(w))))
        /\ Did("append")

\* operator += (wchar_t)
AddWChar(i) ==
    \E chr \in WChars :
        /\ Store(i, IF GetUTF8CharCount(chr) > 1
                        THEN appendRange(str[i], ConvertWStringViewToUTF8CharArray(UntilNul(<< chr, 0 >>)))
                        ELSE append(str[i], 1, ToChar(chr)))
        /\ Did("append")

\* clear()
Clear(i) ==
    /\ Store(i, clear)
    /\ Did("clear")

\* resize(size, ch)
Resize(i) ==
    \E size \in 0 .. MaxStrLen, ch \in Chars :
        /\ Store(i, resize(str[i], size, ch))
        /\ Did("resize")

\* append(count, ch)
AppendFill(i) ==
    \E count \in 0 .. MaxViewLen, ch \in Chars :
        /\ Store(i, append(str[i], count, ch))
        /\ Did("append")

\* append(first, last)
AppendRange(i) ==
    \E s \in StringViews :
        /\ Store(i, appendRange(str[i], s))
        /\ Did("append")

StrNext ==
    \E i \in Strings :
        \/ ConstructFromStringView(i)
        \/ ConstructFromWStringView(i)
        \/ Clear(i)
        \/ Resize(i)
        \/ AppendFill(i)
        \/ AppendRange(i)
        \/ AddStringView(i)
        \/ AddCString(i)
        \/ AddChar(i)
        \/ AddWStringView(i)
        \/ AddWCString(i)
        \/ AddWChar(i)
        \/ \E j \in Strings :
            \/ CopyConstruct(i, j)
            \/ MoveConstruct(i, j)
            \/ CopyAssign(i, j)
            \/ MoveAssign(i, j)
            \/ AddUTF8String(i, j)

----------------------------------------------------------------------------
(* The round trip: UTF8String(wide).to_utf16() *)

ConvInit ==
    /\ str = [i \in Strings |-> clear]
    /\ wide \in SeqsUpTo(ConvWChars, MaxWLen)
    /\ utf16 = NoUtf16
    /\ op = "wide"

\* UTF8String s{ wide }
RoundTripConstruct ==
    /\ op = "wide"
    /\ str' = [str EXCEPT ![1] = ConvertWStringViewToUTF8CharArray(wide)]
    /\ op' = "UTF8String(wide)"
    /\ UNCHANGED << wide, utf16 >>
    /\ UNCHANGED notStr

\* the outcomes of to_utf16(): what the decoder computes or, when it reads
\* outside the buffer, anything
Utf16Outcomes(data) ==
    LET r == to_utf16(data)
    IN  IF r.overrun
            THEN { r, [r EXCEPT !.trap = TRUE] } \cup
                 { [r EXCEPT !.chars = << c, 0 >>] : c \in ConvWChars }
            ELSE { r }

\* s.to_utf16()
RoundTripToUtf16 ==
    /\ op = "UTF8String(wide)"
    /\ utf16' \in Utf16Outcomes(str[1])
    /\ op' = "to_utf16"
    /\ UNCHANGED << str, wide >>
    /\ UNCHANGED notStr

ConvNext == RoundTripConstruct \/ RoundTripToUtf16

----------------------------------------------------------------------------
(* Platform/Linux/LinuxDisplay.cpp: the list of displays *)

\* nullptr
NullDisplay == 0

Range(f) == { f[k] : k \in DOMAIN f }

RECURSIVE NewAddresses(_, _)
\* the addresses of count newly allocated objects: addresses of no object
\* alive and of no object a pointer still refers to
NewAddresses(used, count) ==
    IF count = 0 THEN << >>
    ELSE LET a == CHOOSE a \in 1 .. Cardinality(used) + 1 :
                      a \notin used /\ \A b \in 1 .. a - 1 : b \in used
         IN  << a >> \o NewAddresses(used \cup { a }, count - 1)

\* UpdateDisplayList(): what it returns and what it leaves in g_displayList and
\* g_primaryDisplay.  Every slot i < screenCount is assigned a new LinuxDisplay
\* of screen i, which destroys the object the slot owned; resize destroys the
\* objects of the slots cut off.
UpdateDisplayList ==
    IF screenCount >= 0 /\ screenCount # Len(g_displayList)
        THEN LET used == DOMAIN displayObjects \cup Range(g_displayRefList)
                            \cup { g_primaryDisplay }
                 list == NewAddresses(used, screenCount)
             IN  [ changed          |-> TRUE,
                   g_displayList    |-> list,
                   displayObjects   |-> [a \in Range(list) |->
                                            (CHOOSE i \in 1 .. screenCount : list[i] = a) - 1],
                   g_primaryDisplay |-> IF defaultScreen \in 0 .. screenCount - 1
                                            THEN list[defaultScreen + 1]
                                            ELSE g_primaryDisplay ]
        ELSE [ changed          |-> FALSE,
               g_displayList    |-> g_displayList,
               displayObjects   |-> displayObjects,
               g_primaryDisplay |-> g_primaryDisplay ]

\* LinuxDisplay::IsPrimary() of the object at address a
IsPrimary(a) == displayObjects[a] = defaultScreen

ListIdle ==
    /\ screenCount = 0
    /\ defaultScreen = 0
    /\ displayObjects = << >>
    /\ g_displayList = << >>
    /\ g_displayRefList = << >>
    /\ g_primaryDisplay = NullDisplay
    /\ displayCall = "idle"
    /\ displayRet = NullDisplay

\* the statics are empty and null; the X display has its screens, the default
\* screen among them
ListInit ==
    /\ screenCount \in 1 .. MaxScreens
    /\ defaultScreen \in 0 .. screenCount - 1
    /\ displayObjects = << >>
    /\ g_displayList = << >>
    /\ g_displayRefList = << >>
    /\ g_primaryDisplay = NullDisplay
    /\ displayCall = "none"
    /\ displayRet = NullDisplay

\* a screen is attached or detached: ScreenCount(dpy) changes.  The default
\* screen stays attached as long as any screen is.
HotPlug ==
    /\ \E count \in 0 .. MaxScreens :
        /\ count # screenCount
        /\ count = 0 \/ count > defaultScreen
        /\ screenCount' = count
    /\ displayCall' = "HotPlug"
    /\ UNCHANGED << defaultScreen, displayObjects, g_displayList,
                    g_displayRefList, g_primaryDisplay, displayRet >>
    /\ UNCHANGED notList

\* Display::GetList()
GetList ==
    /\ LET u == UpdateDisplayList
           refs == IF u.changed \/ Len(u.g_displayList) # Len(g_displayRefList)
                       THEN u.g_displayList
                       ELSE g_displayRefList
       IN  /\ g_displayList' = u.g_displayList
           /\ displayObjects' = u.displayObjects
           /\ g_primaryDisplay' = u.g_primaryDisplay
           /\ g_displayRefList' = refs
           /\ displayRet' = refs
    /\ displayCall' = "GetList"
    /\ UNCHANGED << screenCount, defaultScreen >>
    /\ UNCHANGED notList

\* Display::GetPrimary()
GetPrimary ==
    /\ LET u == UpdateDisplayList
       IN  /\ g_displayList' = u.g_displayList
           /\ displayObjects' = u.displayObjects
           /\ g_primaryDisplay' = u.g_primaryDisplay
           /\ displayRet' = u.g_primaryDisplay
    /\ displayCall' = "GetPrimary"
    /\ UNCHANGED << screenCount, defaultScreen, g_displayRefList >>
    /\ UNCHANGED notList

ListNext == HotPlug \/ GetList \/ GetPrimary

----------------------------------------------------------------------------
(* Platform/Linux/LinuxDisplay.cpp, Platform/Android/AndroidDisplay.cpp:
   the modes of a display *)

DisplayMode(width, height, refreshRate) ==
    [resolution |-> [width |-> width, height |-> height], refreshRate |-> refreshRate]

\* the number of pixels of a mode
NumPixels(mode) == mode.resolution.width * mode.resolution.height

\* the order of GetSupportedDisplayModes: fewer pixels first, then the lower
\* refresh rate
CompareSWO(lhs, rhs) ==
    \/ NumPixels(lhs) < NumPixels(rhs)
    \/ NumPixels(lhs) = NumPixels(rhs) /\ lhs.refreshRate <= rhs.refreshRate

\* Display::FinalizeDisplayModes(displayModes) of Platform/Display.cpp: the
\* modes of the list, each once, in the order of GetSupportedDisplayModes.
\* Modes that the order does not tell apart may come out either way.
FinalizeDisplayModes(displayModes) ==
    LET modes == Range(displayModes)
    IN  { q \in [1 .. Cardinality(modes) -> modes] :
            /\ \A i, j \in DOMAIN q : i # j => q[i] # q[j]
            /\ \A i, j \in DOMAIN q : i < j => CompareSWO(q[i], q[j]) }

RECURSIVE PushRates(_, _, _, _)
\* for (int j = 0; j < numRates; ++j): one mode of this size for each rate
PushRates(displayModes, size, rates, j) ==
    IF j <= Len(rates)
        THEN PushRates(Append(displayModes, DisplayMode(size.width, size.height, rates[j])),
                       size, rates, j + 1)
        ELSE displayModes

RECURSIVE PushSizes(_, _, _, _)
\* for (int i = 0; i < numSizes; ++i)
PushSizes(displayModes, sizes, rates, i) ==
    IF i <= Len(sizes)
        THEN PushSizes(PushRates(displayModes, sizes[i], rates[i], 1), sizes, rates, i + 1)
        ELSE displayModes

GetSupportedDisplayModesUnsorted(sizes, rates) ==
    { PushSizes(<< >>, sizes, rates, 1) }

\* LinuxDisplay::GetSupportedDisplayModes(): the lists it may return
GetSupportedDisplayModes(sizes, rates) ==
    FinalizeDisplayModes(PushSizes(<< >>, sizes, rates, 1))

\* AndroidDisplay::GetDisplayMode(): the extent of the window, or the empty
\* extent without a window, at 60 Hz
AndroidGetDisplayMode(window) == DisplayMode(window.width, window.height, 60)

\* AndroidDisplay::GetSupportedDisplayModes()
AndroidGetSupportedDisplayModes(window) == << AndroidGetDisplayMode(window) >>

\* Status of XRRSetScreenConfig: RRSetConfigSuccess, RRSetConfigInvalidConfigTime,
\* RRSetConfigInvalidTime, RRSetConfigFailed
RRSetConfigSuccess == 0
XRRStatuses == { RRSetConfigSuccess, 1, 2, 3 }

RECURSIVE SetDisplayModeFrom(_, _, _, _, _)
\* LinuxDisplay::SetDisplayMode(displayMode), the loop standing at index i: the
\* result and the mode the screen is left in.  XRRGetScreenInfo returns null
\* the next infoFails times it is called; XRRSetScreenConfig returns status,
\* and the screen takes the size, at this rate, exactly when the status is
\* RRSetConfigSuccess.
SetDisplayModeFrom(displayMode, infoFails, status, rate, i) ==
    IF i > Len(scrSizes) THEN [result |-> FALSE, screenConfig |-> screenConfig]
    ELSE IF /\ displayMode.resolution.width = scrSizes[i].width
            /\ displayMode.resolution.height = scrSizes[i].height
        THEN IF infoFails = 0
                THEN [ result       |-> (status # 0),
                       screenConfig |-> IF status = RRSetConfigSuccess
                                            THEN DisplayMode(scrSizes[i].width,
                                                             scrSizes[i].height, rate[i])
                                            ELSE screenConfig ]
                ELSE SetDisplayModeFrom(displayMode, infoFails - 1, status, rate, i + 1)
        ELSE SetDisplayModeFrom(displayMode, infoFails, status, rate, i + 1)

\* the sizes, rates and windows of the platforms
Sizes == { [width |-> 1, height |-> 2], [width |-> 2, height |-> 1],
           [width |-> 2, height |-> 2] }
Rates == { 50, 60 }
\* the rates of a size as XRRRates lists them: none, one, two in descending
\* order, one twice
RateLists == { << >>, << 60 >>, << 60, 50 >>, << 50, 50 >> }
NoWindow == [width |-> 0, height |-> 0]

\* the rates the X server may run size i at: those it reports, or 0 when it
\* reports none
RatesOf(rates, i) == IF rates[i] = << >> THEN { 0 } ELSE Range(rates[i])

ModeIdle ==
    /\ scrSizes = << >>
    /\ scrRates = << >>
    /\ screenConfig = DisplayMode(0, 0, 0)
    /\ modeCall = "idle"
    /\ modeArg = DisplayMode(0, 0, 0)
    /\ modeRet = FALSE

\* a screen with its sizes and rates, in its first size
ModeInit ==
    /\ scrSizes \in SeqsUpTo(Sizes, MaxSizes)
    /\ scrRates \in [1 .. Len(scrSizes) -> RateLists]
    /\ screenConfig \in
            IF scrSizes = << >> THEN { DisplayMode(0, 0, 0) }
            ELSE { DisplayMode(scrSizes[1].width, scrSizes[1].height, r) :
                        r \in RatesOf(scrRates, 1) }
    /\ modeCall = "none"
    /\ modeArg = DisplayMode(0, 0, 0)
    /\ modeRet = FALSE

CallGetSupportedDisplayModes ==
    /\ modeCall = "none"
    /\ modeRet' \in GetSupportedDisplayModes(scrSizes, scrRates)
    /\ modeCall' = "GetSupportedDisplayModes"
    /\ UNCHANGED << scrSizes, scrRates, screenConfig, modeArg >>
    /\ UNCHANGED notMode

CallAndroidGetSupportedDisplayModes ==
    /\ modeCall = "none"
    /\ \E window \in Sizes \cup { NoWindow } :
        modeRet' = AndroidGetSupportedDisplayModes(window)
    /\ modeCall' = "AndroidGetSupportedDisplayModes"
    /\ UNCHANGED << scrSizes, scrRates, screenConfig, modeArg >>
    /\ UNCHANGED notMode

\* LinuxDisplay::SetDisplayMode(displayMode), for what XRRGetScreenInfo and
\* XRRSetScreenConfig may do
CallSetDisplayMode ==
    /\ modeCall = "none"
    /\ \E size \in Sizes, refreshRate \in Rates \cup { 75 },
          infoFails \in 0 .. Len(scrSizes), status \in XRRStatuses,
          rate \in [1 .. Len(scrSizes) -> Rates \cup { 0 }] :
        LET displayMode == DisplayMode(size.width, size.height, refreshRate)
            r == SetDisplayModeFrom(displayMode, infoFails, status, rate, 1)
        IN  /\ \A i \in DOMAIN rate : rate[i] \in RatesOf(scrRates, i)
            /\ modeArg' = displayMode
            /\ modeRet' = r.result
            /\ screenConfig' = r.screenConfig
    /\ modeCall' = "SetDisplayMode"
    /\ UNCHANGED << scrSizes, scrRates >>
    /\ UNCHANGED notMode

\* AndroidDisplay::SetDisplayMode(displayMode)
CallAndroidSetDisplayMode ==
    /\ modeCall = "none"
    /\ \E size \in Sizes, rate \in Rates :
        modeArg' = DisplayMode(size.width, size.height, rate)
    /\ modeRet' = FALSE
    /\ modeCall' = "AndroidSetDisplayMode"
    /\ UNCHANGED << scrSizes, scrRates, screenConfig >>
    /\ UNCHANGED notMode

\* the caller has taken the result
ModeReturn ==
    /\ modeCall # "none"
    /\ modeCall' = "none"
    /\ modeArg' = DisplayMode(0, 0, 0)
    /\ modeRet' = FALSE
    /\ UNCHANGED << scrSizes, scrRates, screenConfig >>
    /\ UNCHANGED notMode

ModeNext ==
    \/ ModeReturn
    \/ CallGetSupportedDisplayModes
    \/ CallAndroidGetSupportedDisplayModes
    \/ CallSetDisplayMode
    \/ CallAndroidSetDisplayMode

----------------------------------------------------------------------------
(* examples/Cpp/ExampleBase/ExampleBase.cpp, Renderer/OpenGL/GLSwapChain.cpp:
   the sample count of the swap chain and of the pipelines *)

Min2(a, b) == IF a <= b THEN a ELSE b

\* ParseSamples: samples = max(1, min(value, 16)) of the value after "-ms="
ParseSamples(value) == Max2(1, Min2(value, 16))

\* GetClampedSamples(samples) of Renderer/TextureUtils.h: the requested
\* samples clamped to the maximum the backend reports
GetClampedSamples(samples) == Min2(samples, maxColorBufferSamples)

\* ExampleBase::GetSampleCount() of ExampleBase.h: the effective sample count
GetSampleCount == samples_

RendererIDs == { "OpenGL", "Vulkan" }

\* the values given after "-ms="
SampleArgs == { 0, 1, 2, 4, 16, 32 }

\* the maxima a backend reports
SampleLimits == { 1, 2, 4, 8, 16, 32 }

SampleIdle ==
    /\ rendererID = "OpenGL"
    /\ maxColorBufferSamples = 1
    /\ g_Config = [samples |-> 8]
    /\ samples_ = 1
    /\ swapChainDesc = [samples |-> 1]
    /\ pixelFormat = [samples |-> 0]
    /\ swapChainSamples = 0
    /\ multiSampleEnabled = FALSE
    /\ pipelineSamples = 0
    /\ examplePc = "idle"

\* the program starts: ExampleConfig has samples = 8, ExampleBase has
\* samples_ = 1 and the descriptor samples = 1
SampleInit ==
    /\ rendererID \in RendererIDs
    /\ maxColorBufferSamples \in SampleLimits
    /\ g_Config = [samples |-> 8]
    /\ samples_ = 1
    /\ swapChainDesc = [samples |-> 1]
    /\ pixelFormat = [samples |-> 0]
    /\ swapChainSamples = 0
    /\ multiSampleEnabled = FALSE
    /\ pipelineSamples = 0
    /\ examplePc = "main"

\* ExampleBase::ParseProgramArgs: with or without an "-ms=" argument
ParseProgramArgs ==
    /\ examplePc = "main"
    /\ \/ UNCHANGED g_Config
       \/ \E value \in SampleArgs : g_Config' = [samples |-> ParseSamples(value)]
    /\ examplePc' = "parsed"
    /\ UNCHANGED << rendererID, maxColorBufferSamples, samples_, swapChainDesc,
                    pixelFormat, swapChainSamples, multiSampleEnabled, pipelineSamples >>
    /\ UNCHANGED notSample

\* samples_ as the constructor sets it
AppliedDeviceLimits ==
    IF rendererID = "OpenGL"
        THEN g_Config.samples
        ELSE Min2(g_Config.samples, maxColorBufferSamples)

\* ExampleBase::ExampleBase up to CreateSwapChain.  The GLSwapChain asks for a
\* pixel format of GetClampedSamples(desc.samples) samples; the other backends
\* create the swap chain with the samples of the descriptor.
ExampleBaseConstructor ==
    /\ examplePc = "parsed"
    /\ samples_' = AppliedDeviceLimits
    /\ swapChainDesc' = [samples |-> samples_']
    /\ IF rendererID = "OpenGL"
          THEN /\ pixelFormat' = [samples |-> GetClampedSamples(swapChainDesc'.samples)]
               /\ swapChainSamples' = pixelFormat'.samples
          ELSE /\ pixelFormat' = pixelFormat
               /\ swapChainSamples' = swapChainDesc'.samples
    /\ examplePc' = "constructed"
    /\ UNCHANGED << rendererID, maxColorBufferSamples, g_Config, multiSampleEnabled,
                    pipelineSamples >>
    /\ UNCHANGED notSample

\* CreatePipelines of the examples
CreatePipelines ==
    /\ examplePc = "constructed"
    /\ pipelineSamples' = GetSampleCount
    /\ multiSampleEnabled' = (GetSampleCount > 1)
    /\ examplePc' = "pipelines"
    /\ UNCHANGED << rendererID, maxColorBufferSamples, g_Config, samples_, swapChainDesc,
                    pixelFormat, swapChainSamples >>
    /\ UNCHANGED notSample

SampleNext == ParseProgramArgs \/ ExampleBaseConstructor \/ CreatePipelines

----------------------------------------------------------------------------
(* sources/Renderer/OpenGL/GLSwapChain.cpp: the framebuffer height a swap
   chain caches and the one the state manager tracks *)

MaxSwapChains == 2

Extent2D(x, y) == [x |-> x, y |-> y]

\* the resolutions asked for
Resolutions == { Extent2D(800, 600), Extent2D(1920, 1080), Extent2D(1280, 600) }

\* the factor by which the surface of a high-resolution display is larger than
\* the size asked for
SurfaceScales == { 1, 2 }

NoSwapChain == [created |-> FALSE, resolution |-> Extent2D(0, 0),
                framebufferHeight_ |-> 0, context_ |-> 0]

NoSwapCall == [op |-> "none", swapChain |-> 0, before |-> Extent2D(0, 0)]

\* SwapChain::GetResolution() of Renderer/SwapChain.cpp
GetResolution(swapChain) == swapChains[swapChain].resolution

\* SwapChain::SetOrCreateSurface of Renderer/SwapChain.cpp: the resolution of
\* the swap chain is the size of the surface, a multiple of the size asked for
SetOrCreateSurface(resolution, scale) ==
    Extent2D(resolution.x * scale, resolution.y * scale)

\* GLContextManager::AllocContext: a context allocated before, or a new one
AllocContext == 1 .. Min2(numContexts + 1, MaxSwapChains)

\* GLStateManager::ResetFramebufferHeight(height) on the manager of context c
ResetFramebufferHeight(heights, c, height) ==
    IF c \in DOMAIN heights THEN [heights EXCEPT ![c] = height] ELSE heights

\* GLSwapChain::ResizeBuffersPrimary(resolution) on the swap chain: the swap
\* chain and the heights of the state managers after the call.
\* GetStateManager() is the state manager of the swap chain's context.
ResizeBuffersPrimaryKeepsHeight(swapChain, resolution) ==
    LET height == resolution.y
    IN  [swapChain       |-> swapChain,
         stateMngrHeight |-> ResetFramebufferHeight(stateMngrHeight, swapChain.context_, height),
         result          |-> TRUE]

ResizeBuffersPrimary(swapChain, resolution) ==
    LET height == resolution.y
    IN  [swapChain       |-> [swapChain EXCEPT !.framebufferHeight_ = height],
         stateMngrHeight |-> ResetFramebufferHeight(stateMngrHeight, swapChain.context_, height),
         result          |-> TRUE]

SwapIdle ==
    /\ swapChains = [i \in 1 .. MaxSwapChains |-> NoSwapChain]
    /\ numContexts = 0
    /\ stateMngrHeight = [c \in 1 .. MaxSwapChains |-> 0]
    /\ currentSwapChain = 0
    /\ currentStateMngr = 0
    /\ swapCall = NoSwapCall
    /\ swapIntervals = [c \in 1 .. MaxSwapChains |-> 1]
    /\ vsyncRet = FALSE

\* no swap chain yet; the first one is constructed by an action
SwapInit ==
    /\ swapChains = [i \in 1 .. MaxSwapChains |-> NoSwapChain]
    /\ numContexts = 0
    /\ stateMngrHeight = [c \in 1 .. MaxSwapChains |-> 0]
    /\ currentSwapChain = 0
    /\ currentStateMngr = 0
    /\ swapCall = [NoSwapCall EXCEPT !.op = "start"]
    /\ swapIntervals = [c \in 1 .. MaxSwapChains |-> 1]
    /\ vsyncRet = FALSE

\* GLSwapChain::GLSwapChain(desc, surface, contextMngr)
GLSwapChainConstructor ==
    \E i \in 1 .. MaxSwapChains, resolution \in Resolutions,
       scale \in SurfaceScales, context \in AllocContext :
        /\ swapCall.op # "none"
        /\ ~swapChains[i].created
        /\ LET surfaceSize == SetOrCreateSurface(resolution, scale)
               framebufferHeight == surfaceSize.y
           IN  /\ swapChains' = [swapChains EXCEPT ![i] =
                        [created            |-> TRUE,
                         resolution         |-> surfaceSize,
                         framebufferHeight_ |-> framebufferHeight,
                         context_           |-> context]]
               /\ numContexts' = Max2(numContexts, context)
               /\ currentSwapChain' = i
               /\ currentStateMngr' = context
               /\ stateMngrHeight' =
                        ResetFramebufferHeight(stateMngrHeight, context, framebufferHeight)
        /\ swapCall' = [op |-> "GLSwapChain", swapChain |-> i, before |-> Extent2D(0, 0)]
        /\ UNCHANGED vsyncVars
        /\ UNCHANGED notSwap

\* SwapChain::ResizeBuffers(resolution) of Renderer/SwapChain.cpp: resizes the
\* buffers with ResizeBuffersPrimary and, on success, stores the resolution
ResizeBuffers ==
    \E i \in 1 .. MaxSwapChains, resolution \in Resolutions :
        /\ swapChains[i].created
        /\ LET resized == ResizeBuffersPrimary(swapChains[i], resolution)
           IN  /\ swapChains' = [swapChains EXCEPT ![i] =
                        IF resized.result
                            THEN [resized.swapChain EXCEPT !.resolution = resolution]
                            ELSE resized.swapChain]
               /\ stateMngrHeight' = resized.stateMngrHeight
        /\ swapCall' = [op |-> "ResizeBuffers", swapChain |-> i,
                        before |-> GetResolution(i)]
        /\ UNCHANGED << numContexts, currentSwapChain, currentStateMngr >>
        /\ UNCHANGED vsyncVars
        /\ UNCHANGED notSwap

\* GLSwapChain::MakeCurrent(swapChain), swapChain = 0 for nullptr
MakeCurrent ==
    \E i \in 0 .. MaxSwapChains :
        /\ swapCall.op # "none"
        /\ i # 0 => swapChains[i].created
        /\ IF i # 0
              THEN /\ currentSwapChain' = i
                   /\ currentStateMngr' = swapChains[i].context_
                   /\ stateMngrHeight' =
                        ResetFramebufferHeight(stateMngrHeight, currentStateMngr',
                                               swapChains[i].framebufferHeight_)
              ELSE /\ currentSwapChain' = 0
                   /\ UNCHANGED << currentStateMngr, stateMngrHeight >>
        /\ swapCall' = [op |-> "MakeCurrent", swapChain |-> i, before |-> Extent2D(0, 0)]
        /\ UNCHANGED << swapChains, numContexts >>
        /\ UNCHANGED vsyncVars
        /\ UNCHANGED notSwap

\* eglSwapInterval(display_, interval) on the current context: EGL_TRUE and
\* the interval is in effect, or EGL_FALSE
EGL_TRUE == 1
EGL_FALSE == 0
EGLBooleans == { EGL_TRUE, EGL_FALSE }

\* the intervals asked for
VsyncIntervals == { 0, 1, 2 }

\* GLSwapChain::SetSwapInterval(swapInterval) on swap chain i, eglSwapInterval
\* returning status: the context of the swap chain is made current, then the
\* interval of the current context is set
SetSwapInterval(i, swapInterval, status) ==
    [currentSwapChain |-> i,
     currentStateMngr |-> swapChains[i].context_,
     swapIntervals    |-> IF status = EGL_TRUE
                            THEN [swapIntervals EXCEPT ![swapChains[i].context_] = swapInterval]
                            ELSE swapIntervals,
     result           |-> (status = EGL_TRUE)]

\* GLSwapChain::SetVsyncInterval(vsyncInterval)
SetVsyncInterval ==
    \E i \in 1 .. MaxSwapChains, vsyncInterval \in VsyncIntervals, status \in EGLBooleans :
        /\ swapChains[i].created
        /\ LET set == SetSwapInterval(i, vsyncInterval, status)
           IN  /\ currentSwapChain' = set.currentSwapChain
               /\ currentStateMngr' = set.currentStateMngr
               /\ swapIntervals' = set.swapIntervals
               /\ vsyncRet' = set.result
        /\ swapCall' = [op |-> "SetVsyncInterval", swapChain |-> i, before |-> Extent2D(0, 0)]
        /\ UNCHANGED << swapChains, numContexts, stateMngrHeight >>
        /\ UNCHANGED notSwap

SwapNext == GLSwapChainConstructor \/ ResizeBuffers \/ MakeCurrent

----------------------------------------------------------------------------
(* examples/Cpp/Mapping/Example.cpp, examples/Cpp/Texturing/Example.cpp,
   tests/Testbed/UnitTests/TestDualSourceBlending.cpp: the calls the programs
   make on the render system, the command buffer and the command queue *)

MaxFrames == 2

\* contentBufferSize = 4 * 512 bytes: 512 elements of format RGBA8UNorm
contentBufferSize == 4 * 512
BufferElements == 0 .. (contentBufferSize \div 4) - 1

\* dstTextureSize = { 64, 64, 1 }
dstTextureSize == [x |-> 64, y |-> 64, z |-> 1]
TexturePixels == 0 .. dstTextureSize.x * dstTextureSize.y - 1
Pixel(x, y) == y * dstTextureSize.x + x

\* memory nothing has been written to (MiscFlags::NoInitialData, WriteDiscard);
\* memory that was written holds << word >>
Undefined == << >>
NotWritten == << >>

\* LLGL::ColorRGBAub{ r, g, b, a }: the four bytes r, g, b, a of an element in
\* memory, held as the 32-bit word they make up (little endian); a word with
\* its highest bit set is held as word - 2^32
ColorRGBAub(r, g, b, a) ==
    << r + 256 * g + 65536 * b + 16777216 * (IF a >= 128 THEN a - 256 ELSE a) >>
Red == ColorRGBAub(208, 80, 32, 255)

\* the bytes r, g, b of an element in memory, as ModifyTextureContent prints
\* them
PrintedColor(element) ==
    IF element = Undefined THEN Undefined
    ELSE << element[1] % 256, (element[1] \div 256) % 256, (element[1] \div 65536) % 256 >>

\* 0xFF50D040 and 0xFFD05050 as 32-bit values: 4283486272 - 2^32 and
\* 4291842128 - 2^32
FillGreen == -11481024
FillBlue == -3125168

\* one call of the program; body: the number of calls that follow inside the
\* if-statement of a MapBuffer call, skipped when MapBuffer returns null
Call(name, args) == [call |-> name, args |-> args, body |-> 0]
CallIf(name, args, body) == [call |-> name, args |-> args, body |-> body]
NoCall == Call("none", << >>)

RECURSIVE CopyRows(_, _)
\* the loop of GenerateTextureContent: for (y = 0; y < dstTextureSize.y; y += 8)
CopyRows(y, height) ==
    IF y >= height THEN << >>
    ELSE << Call("CopyTextureFromBuffer", << 0, 0, y, 64, 8, 0 >>) >>
            \o CopyRows(y + 8, height)

\* GenerateTextureContent: "Map content buffer for writing"
WriteInitialDataNoUnmap ==
    << CallIf("MapBuffer", << "WriteDiscard" >>, 1),
       Call("Write", << 128, Red >>) >>

WriteInitialData ==
    << CallIf("MapBuffer", << "WriteDiscard" >>, 2),
       Call("Write", << 128, Red >>),
       Call("UnmapBuffer", << >>) >>

\* GenerateTextureContent: "Fill up content buffer"
FillContentBufferOverWritten ==
    << Call("FillBuffer", << 127 * 4, FillGreen, 129 * 4 >>),
       Call("FillBuffer", << 256 * 4, FillBlue, 256 * 4 >>) >>

FillContentBuffer ==
    << Call("FillBuffer", << 128 * 4, FillGreen, 128 * 4 >>),
       Call("FillBuffer", << 256 * 4, FillBlue, 256 * 4 >>) >>

\* Example_Mapping::GenerateTextureContent
GenerateTextureContent ==
    WriteInitialData
    \o << Call("Begin", << >>) >>
    \o FillContentBuffer
    \o CopyRows(0, dstTextureSize.y)
    \o << Call("CopyTexture", << 1, 0, 0, 0, 0, 0, dstTextureSize.x, dstTextureSize.y >>),
          Call("End", << >>),
          Call("Submit", << >>) >>

\* Example_Mapping::ModifyTextureContent with dstTextureIndex = index
ModifyTextureContent(index) ==
    << Call("Begin", << >>),
       Call("CopyTexture", << (index + 1) % 2, 8, 8, index, 12, 10, 32, 32 >>),
       Call("CopyBufferFromTexture", << 0, (index + 1) % 2, 8, 8, 1, 1 >>),
       Call("End", << >>),
       Call("Submit", << >>),
       CallIf("MapBuffer", << "ReadOnly" >>, 2),
       Call("Read", << 0 >>),
       Call("UnmapBuffer", << >>),
       Call("NextTexture", << (index + 1) % 2 >>) >>

\* the scene drawn by Example_Mapping::OnDrawFrame
DrawSceneNoEndRenderPass(index) ==
    << Call("Begin", << >>),
       Call("SetVertexBuffer", << >>),
       Call("BeginRenderPass", << >>),
       Call("Clear", << >>),
       Call("SetViewport", << >>),
       Call("SetPipelineState", << >>),
       Call("SetResourceHeap", << index >>),
       Call("Draw", << 4, 0 >>),
       Call("End", << >>),
       Call("Submit", << >>) >>

DrawScene(index) ==
    << Call("Begin", << >>),
       Call("SetVertexBuffer", << >>),
       Call("BeginRenderPass", << >>),
       Call("Clear", << >>),
       Call("SetViewport", << >>),
       Call("SetPipelineState", << >>),
       Call("SetResourceHeap", << index >>),
       Call("Draw", << 4, 0 >>),
       Call("EndRenderPass", << >>),
       Call("End", << >>),
       Call("Submit", << >>) >>

\* Example_Mapping::OnDrawFrame with the keys that are down
MappingOnDrawFrame(keys, index) ==
    (IF "Tab" \in keys THEN ModifyTextureContent(index) ELSE << >>)
    \o (IF "Back" \in keys THEN GenerateTextureContent ELSE << >>)
    \o DrawScene(IF "Tab" \in keys THEN (index + 1) % 2 ELSE index)

\* the resourceIndex of Example_Texturing after the keys have been examined;
\* resourceIndex is unsigned: 0 - 1 is 2^32 - 1, and (2^32 - 1) % 4 = 3
NextResourceIndex(keys, index) ==
    IF "Tab" \notin keys THEN index
    ELSE IF "Shift" \in keys
        THEN (((IF index = 0 THEN 3 ELSE (index - 1) % 4)) + 4) % 4
        ELSE (index + 1) % 4

\* Example_Texturing::OnDrawFrame, from commands->Begin() on
TexturingOnDrawFrame(index) ==
    << Call("Begin", << >>),
       Call("UpdateBuffer", << >>),
       Call("SetVertexBuffer", << >>),
       Call("SetIndexBuffer", << >>),
       Call("BeginRenderPass", << >>),
       Call("Clear", << >>),
       Call("SetViewport", << >>),
       Call("SetPipelineState", << >>),
       Call("SetResource", << 0, 0 >>),
       Call("SetResource", << 1, IF index = 0 THEN 0 ELSE 1 >>),
       Call("SetResource", << 2, IF index = 0 THEN 0 ELSE index - 1 >>),
       Call("DrawIndexed", << 36, 0 >>),
       Call("EndRenderPass", << >>),
       Call("End", << >>),
       Call("Submit", << >>) >>

\* DEF_TEST( DualSourceBlending ): the scene rendered
TestDualSourceBlending ==
    << Call("Begin", << >>),
       Call("SetVertexBuffer", << >>),
       Call("BeginRenderPass", << >>),
       Call("SetViewport", << >>),
       Call("Clear", << >>),
       Call("SetPipelineState", << >>),
       Call("SetResource", << 0, 0 >>),
       Call("SetResource", << 1, 1 >>),
       Call("SetResource", << 2, 0 >>),
       Call("SetResource", << 3, 1 >>),
       Call("Draw", << 3, 0 >>),
       Call("CaptureFramebuffer", << >>),
       Call("EndRenderPass", << >>),
       Call("End", << >>) >>

\* the commands that only encode
EncodeCalls == { "FillBuffer", "CopyTextureFromBuffer", "CopyTexture",
                 "CopyBufferFromTexture", "UpdateBuffer", "SetVertexBuffer",
                 "SetIndexBuffer", "Clear", "SetViewport", "SetResourceHeap",
                 "SetResource", "CaptureFramebuffer" }
DrawCalls == { "Draw", "DrawIndexed" }

\* ---- the commands executed by the device ---------------------------------

\* CommandBuffer::FillBuffer(contentBuffer, offset, value, size)
ExecFillBuffer(res, a) ==
    LET first == a[1] \div 4
        last  == (a[1] + a[3]) \div 4 - 1
    IN  [res EXCEPT
            !.contentBuffer = [i \in BufferElements |->
                IF i >= first /\ i <= last THEN << a[2] >> ELSE res.contentBuffer[i]],
            !.deviceWritten = @ \cup { i \in BufferElements : i >= first /\ i <= last }]

\* CommandBuffer::CopyTextureFromBuffer(dstTextures[t], { x, y, w, h }, contentBuffer, offset)
ExecCopyTextureFromBuffer(res, a) ==
    LET t == a[1] + 1
        x == a[2]
        y == a[3]
        w == a[4]
        h == a[5]
        first == a[6] \div 4
    IN  [res EXCEPT !.dstTextures[t] = [p \in TexturePixels |->
            LET px == p % dstTextureSize.x
                py == p \div dstTextureSize.x
            IN  IF px >= x /\ px < x + w /\ py >= y /\ py < y + h
                    THEN res.contentBuffer[first + (py - y) * w + (px - x)]
                    ELSE res.dstTextures[t][p]]]

\* CommandBuffer::CopyTexture(dstTextures[d], { dx, dy }, dstTextures[s], { sx, sy }, { w, h })
ExecCopyTexture(res, a) ==
    LET d == a[1] + 1
        dx == a[2]
        dy == a[3]
        s == a[4] + 1
        sx == a[5]
        sy == a[6]
        w == a[7]
        h == a[8]
    IN  [res EXCEPT !.dstTextures[d] = [p \in TexturePixels |->
            LET px == p % dstTextureSize.x
                py == p \div dstTextureSize.x
            IN  IF px >= dx /\ px < dx + w /\ py >= dy /\ py < dy + h
                    THEN res.dstTextures[s][Pixel(px - dx + sx, py - dy + sy)]
                    ELSE res.dstTextures[d][p]]]

\* CommandBuffer::CopyBufferFromTexture(contentBuffer, offset, dstTextures[t], { x, y, w, h })
ExecCopyBufferFromTexture(res, a) ==
    LET first == a[1] \div 4
        t == a[2] + 1
        x == a[3]
        y == a[4]
        w == a[5]
        h == a[6]
        written == { i \in BufferElements : i >= first /\ i < first + w * h }
    IN  [res EXCEPT
            !.contentBuffer = [i \in BufferElements |->
                IF i \in written
                    THEN res.dstTextures[t][Pixel(x + ((i - first) % w), y + ((i - first) \div w))]
                    ELSE res.contentBuffer[i]],
            !.deviceWritten = @ \cup written]

ExecCommand(res, cmd) ==
    CASE cmd.call = "FillBuffer"            -> ExecFillBuffer(res, cmd.args)
      [] cmd.call = "CopyTextureFromBuffer" -> ExecCopyTextureFromBuffer(res, cmd.args)
      [] cmd.call = "CopyTexture"           -> ExecCopyTexture(res, cmd.args)
      [] cmd.call = "CopyBufferFromTexture" -> ExecCopyBufferFromTexture(res, cmd.args)
      [] OTHER                              -> res

RECURSIVE ExecCommands(_, _, _)
\* the device executes the commands cmds[k], cmds[k + 1], ... in order
ExecCommands(res, cmds, k) ==
    IF k > Len(cmds) THEN res
    ELSE ExecCommands(ExecCommand(res, cmds[k]), cmds, k + 1)

Programs == { "Mapping", "Texturing", "DualSourceBlending" }

NoBuffer == [i \in BufferElements |-> Undefined]
NoTexture == [p \in TexturePixels |-> Undefined]
NoMapping == [access |-> "none", memory |-> << >>]
NothingWritten == [i \in BufferElements |-> NotWritten]

RecIdle ==
    /\ app = "none"
    /\ program = << >>
    /\ frame = 0
    /\ lastCall = NoCall
    /\ cmdState = "initial"
    /\ encoded = << >>
    /\ renderPasses = 0
    /\ pipelineSet = FALSE
    /\ contentBuffer = << >>
    /\ mapping = NoMapping
    /\ dstTextures = << >>
    /\ dstTextureIndex = 0
    /\ resourceIndex = 0
    /\ srcColor0 = Undefined
    /\ cpuWritten = << >>
    /\ deviceWritten = {}

\* the resources are created without initial data; the constructor of
\* Example_Mapping then calls GenerateTextureContent, the test renders its
\* scene once, Example_Texturing only draws frames
RecInit ==
    /\ app \in Programs
    /\ program = CASE app = "Mapping"            -> GenerateTextureContent
                   [] app = "DualSourceBlending" -> TestDualSourceBlending
                   [] OTHER                      -> << >>
    /\ frame = 0
    /\ lastCall = NoCall
    /\ cmdState = "initial"
    /\ encoded = << >>
    /\ renderPasses = 0
    /\ pipelineSet = FALSE
    /\ contentBuffer = NoBuffer
    /\ mapping = NoMapping
    /\ dstTextures = << NoTexture, NoTexture >>
    /\ dstTextureIndex = 0
    /\ resourceIndex = 0
    /\ srcColor0 = Undefined
    /\ cpuWritten = NothingWritten
    /\ deviceWritten = {}

\* the next call of the program is made
Calls(names) ==
    /\ program # << >>
    /\ Head(program).call \in names
    /\ lastCall' = Head(program)

Returns == program' = Tail(program)

\* the main loop calls OnDrawFrame with some keys down
OnDrawFrame ==
    /\ app \in { "Mapping", "Texturing" }
    /\ program = << >>
    /\ frame < MaxFrames
    /\ frame' = frame + 1
    /\ \E keys \in SUBSET (IF app = "Mapping" THEN { "Tab", "Back" } ELSE { "Tab", "Shift" }) :
        IF app = "Mapping"
            THEN /\ program' = MappingOnDrawFrame(keys, dstTextureIndex)
                 /\ UNCHANGED resourceIndex
            ELSE /\ resourceIndex' = NextResourceIndex(keys, resourceIndex)
                 /\ program' = TexturingOnDrawFrame(resourceIndex')
    /\ lastCall' = Call("OnDrawFrame", << >>)
    /\ UNCHANGED << app, cmdState, encoded, renderPasses, pipelineSet, contentBuffer,
                    mapping, dstTextures, dstTextureIndex, srcColor0, cpuWritten,
                    deviceWritten >>
    /\ UNCHANGED notRec

\* RenderSystem::MapBuffer(contentBuffer, access): a pointer to the memory of
\* the buffer, or null; WriteDiscard discards the previous content
MapBuffer ==
    /\ Calls({ "MapBuffer" })
    /\ \E mapped \in BOOLEAN :
        IF mapped /\ mapping.access = "none"
            THEN /\ program' = Tail(program)
                 /\ IF lastCall'.args[1] = "WriteDiscard"
                       THEN /\ mapping' = [access |-> "WriteDiscard", memory |-> NoBuffer]
                            /\ contentBuffer' = NoBuffer
                            /\ cpuWritten' = NothingWritten
                            /\ deviceWritten' = {}
                       ELSE /\ mapping' = [access |-> "ReadOnly", memory |-> contentBuffer]
                            /\ UNCHANGED << contentBuffer, cpuWritten, deviceWritten >>
            ELSE /\ program' = SubSeq(program, 2 + lastCall'.body, Len(program))
                 /\ UNCHANGED << mapping, contentBuffer, cpuWritten, deviceWritten >>
    /\ UNCHANGED << app, frame, cmdState, encoded, renderPasses, pipelineSet,
                    dstTextures, dstTextureIndex, resourceIndex, srcColor0 >>
    /\ UNCHANGED notRec

\* for (i = 0; i < count; ++i) dstColors[i] = color
WriteMapped ==
    /\ Calls({ "Write" })
    /\ Returns
    /\ LET count == lastCall'.args[1]
           color == lastCall'.args[2]
       IN  /\ mapping' = [mapping EXCEPT !.memory =
                    [i \in BufferElements |-> IF i < count THEN color ELSE @[i]]]
           /\ cpuWritten' = [i \in BufferElements |->
                    IF i < count THEN color ELSE cpuWritten[i]]
           /\ deviceWritten' = { i \in deviceWritten : i >= count }
    /\ UNCHANGED << app, frame, cmdState, encoded, renderPasses, pipelineSet,
                    contentBuffer, dstTextures, dstTextureIndex, resourceIndex, srcColor0 >>
    /\ UNCHANGED notRec

\* srcColor0 = srcColors[0]
ReadMapped ==
    /\ Calls({ "Read" })
    /\ Returns
    /\ srcColor0' = PrintedColor(mapping.memory[lastCall'.args[1]])
    /\ UNCHANGED << app, frame, cmdState, encoded, renderPasses, pipelineSet,
                    contentBuffer, mapping, dstTextures, dstTextureIndex, resourceIndex,
                    cpuWritten, deviceWritten >>
    /\ UNCHANGED notRec

\* RenderSystem::UnmapBuffer(contentBuffer): what was written becomes the
\* content of the buffer
UnmapBuffer ==
    /\ Calls({ "UnmapBuffer" })
    /\ Returns
    /\ contentBuffer' = IF mapping.access = "WriteDiscard" THEN mapping.memory
                        ELSE contentBuffer
    /\ mapping' = NoMapping
    /\ UNCHANGED << app, frame, cmdState, encoded, renderPasses, pipelineSet,
                    dstTextures, dstTextureIndex, resourceIndex, srcColor0,
                    cpuWritten, deviceWritten >>
    /\ UNCHANGED notRec

\* dstTextureIndex = (dstTextureIndex + 1) % 2
NextTexture ==
    /\ Calls({ "NextTexture" })
    /\ Returns
    /\ dstTextureIndex' = (dstTextureIndex + 1) % 2
    /\ UNCHANGED << app, frame, cmdState, encoded, renderPasses, pipelineSet,
                    contentBuffer, mapping, dstTextures, resourceIndex, srcColor0,
                    cpuWritten, deviceWritten >>
    /\ UNCHANGED notRec

\* CommandBuffer::Begin
Begin ==
    /\ Calls({ "Begin" })
    /\ Returns
    /\ cmdState' = "recording"
    /\ encoded' = << >>
    /\ renderPasses' = 0
    /\ pipelineSet' = FALSE
    /\ UNCHANGED << app, frame, contentBuffer, mapping, dstTextures, dstTextureIndex,
                    resourceIndex, srcColor0, cpuWritten, deviceWritten >>
    /\ UNCHANGED notRec

\* a command that is only encoded
Encode ==
    /\ Calls(EncodeCalls)
    /\ Returns
    /\ encoded' = Append(encoded, lastCall')
    /\ UNCHANGED << app, frame, cmdState, renderPasses, pipelineSet, contentBuffer,
                    mapping, dstTextures, dstTextureIndex, resourceIndex, srcColor0,
                    cpuWritten, deviceWritten >>
    /\ UNCHANGED notRec

\* CommandBuffer::BeginRenderPass
BeginRenderPass ==
    /\ Calls({ "BeginRenderPass" })
    /\ Returns
    /\ encoded' = Append(encoded, lastCall')
    /\ renderPasses' = renderPasses + 1
    /\ UNCHANGED << app, frame, cmdState, pipelineSet, contentBuffer,
                    mapping, dstTextures, dstTextureIndex, resourceIndex, srcColor0,
                    cpuWritten, deviceWritten >>
    /\ UNCHANGED notRec

\* CommandBuffer::EndRenderPass
EndRenderPass ==
    /\ Calls({ "EndRenderPass" })
    /\ Returns
    /\ encoded' = Append(encoded, lastCall')
    /\ renderPasses' = renderPasses - 1
    /\ UNCHANGED << app, frame, cmdState, pipelineSet, contentBuffer,
                    mapping, dstTextures, dstTextureIndex, resourceIndex, srcColor0,
                    cpuWritten, deviceWritten >>
    /\ UNCHANGED notRec

\* CommandBuffer::SetPipelineState
SetPipelineState ==
    /\ Calls({ "SetPipelineState" })
    /\ Returns
    /\ encoded' = Append(encoded, lastCall')
    /\ pipelineSet' = TRUE
    /\ UNCHANGED << app, frame, cmdState, renderPasses, contentBuffer,
                    mapping, dstTextures, dstTextureIndex, resourceIndex, srcColor0,
                    cpuWritten, deviceWritten >>
    /\ UNCHANGED notRec

\* CommandBuffer::Draw, CommandBuffer::DrawIndexed
Draw ==
    /\ Calls(DrawCalls)
    /\ Returns
    /\ encoded' = Append(encoded, lastCall')
    /\ UNCHANGED << app, frame, cmdState, renderPasses, pipelineSet, contentBuffer,
                    mapping, dstTextures, dstTextureIndex, resourceIndex, srcColor0,
                    cpuWritten, deviceWritten >>
    /\ UNCHANGED notRec

\* CommandBuffer::End
End ==
    /\ Calls({ "End" })
    /\ Returns
    /\ cmdState' = "executable"
    /\ UNCHANGED << app, frame, encoded, renderPasses, pipelineSet, contentBuffer,
                    mapping, dstTextures, dstTextureIndex, resourceIndex, srcColor0,
                    cpuWritten, deviceWritten >>
    /\ UNCHANGED notRec

\* CommandQueue::Submit(commands): the device executes the encoded commands
Submit ==
    /\ Calls({ "Submit" })
    /\ Returns
    /\ LET res == ExecCommands([contentBuffer |-> contentBuffer,
                                dstTextures   |-> dstTextures,
                                deviceWritten |-> deviceWritten], encoded, 1)
       IN  /\ contentBuffer' = res.contentBuffer
           /\ dstTextures' = res.dstTextures
           /\ deviceWritten' = res.deviceWritten
    /\ UNCHANGED << app, frame, cmdState, encoded, renderPasses, pipelineSet,
                    mapping, dstTextureIndex, resourceIndex, srcColor0, cpuWritten >>
    /\ UNCHANGED notRec

RecNext ==
    \/ OnDrawFrame
    \/ MapBuffer
    \/ WriteMapped
    \/ ReadMapped
    \/ UnmapBuffer
    \/ NextTexture
    \/ Begin
    \/ Encode
    \/ BeginRenderPass
    \/ EndRenderPass
    \/ SetPipelineState
    \/ Draw
    \/ End
    \/ Submit

----------------------------------------------------------------------------
(* sources/Platform/Path.h *)

MaxPathLen == 4

\* '/', the separator of the host (std::filesystem::path::preferred_separator
\* on Linux), and '\\', the wrong one
Slash == 47
Backslash == 92
Dot == 46

\* Path::GetSeparator()
GetSeparator == Slash

\* "Foo/../Bar/" and "Bar"
FooUpBar == << 70, 111, 111, 47, 46, 46, 47, 66, 97, 114, 47 >>
Bar == << 66, 97, 114 >>

\* std::filesystem::path(source).c_str() on a POSIX host: the path keeps the
\* characters it was constructed from (its native format is the generic one)
\* and c_str() returns them
FilesystemPathCStr(source) == source

\* Path::Sanitize(path) on UTF8String data: path.c_str() ends at the first
\* NUL, and the result is the UTF8String of the const char* returned
Sanitize(path) ==
    ConvertStringViewToCharArray(UntilNul(FilesystemPathCStr(UntilNul(path))))

PathChars == { Slash, Backslash, Dot, 97 }

\* the paths sanitized: UTF8Strings of up to MaxPathLen characters, and
\* "Foo/../Bar/"
Paths == { ConvertStringViewToCharArray(q) :
            q \in SeqsUpTo(PathChars, MaxPathLen) \cup { FooUpBar } }

PathIdle ==
    /\ pathArg = clear
    /\ pathRet = clear
    /\ pathOp = "none"

PathInit ==
    /\ pathArg \in Paths
    /\ pathRet = clear
    /\ pathOp = "start"

\* Path::Sanitize(pathArg)
CallSanitize ==
    /\ pathOp = "start"
    /\ pathRet' = Sanitize(pathArg)
    /\ pathOp' = "Sanitize"
    /\ UNCHANGED pathArg
    /\ UNCHANGED notPath

\* Path::Sanitize of what Path::Sanitize returned
CallSanitizeAgain ==
    /\ pathOp = "Sanitize"
    /\ pathArg' = pathRet
    /\ pathRet' = Sanitize(pathRet)
    /\ pathOp' = "Sanitize again"
    /\ UNCHANGED notPath

PathNext == CallSanitize \/ CallSanitizeAgain

----------------------------------------------------------------------------
(* sources/Renderer/RenderTarget.cpp *)

\* RenderTarget::ValidateResolution(attachmentResolution) on a render target
\* whose GetResolution() is targetResolution: LLGL_TRAP does not return
ValidateResolutionNoZeroCheck(targetResolution, attachmentResolution) ==
    IF targetResolution # attachmentResolution
        THEN "trap"
        ELSE "return"

ValidateResolution(targetResolution, attachmentResolution) ==
    IF attachmentResolution.x = 0 \/ attachmentResolution.y = 0
        THEN "trap"
        ELSE IF targetResolution # attachmentResolution
            THEN "trap"
            ELSE "return"

\* Texture::GetMipExtent(mipLevel) of a texture of the type and extent
TextureGetMipExtent(texture, level) ==
    GetMipExtent(texture.type, texture.extent, level)

\* RenderTarget::ValidateMipResolution(texture, mipLevel)
ValidateMipResolution(targetResolution, texture, level) ==
    LET size == TextureGetMipExtent(texture, level)
    IN  ValidateResolution(targetResolution, Extent2D(size.x, size.y))

\* the resolutions of render targets and attachments
RtSizes == { 0, 1, 2, 64 }
RtResolutions == { Extent2D(x, y) : x \in RtSizes, y \in RtSizes }

\* the textures attached: every type, one layer or slice
RtTextures == [type : TextureTypes, extent : { e \in PositiveExtents : e.z = 1 }]

NoRtArg == [attachmentResolution |-> Extent2D(0, 0),
            texture |-> [type |-> "Texture2D", extent |-> Extent3D(1, 1, 1)],
            mipLevel |-> 0]

RtIdle ==
    /\ rtResolution = Extent2D(0, 0)
    /\ rtOp = "idle"
    /\ rtArg = NoRtArg
    /\ rtOutcome = "return"

RtInit ==
    /\ rtResolution \in RtResolutions
    /\ rtOp = "none"
    /\ rtArg = NoRtArg
    /\ rtOutcome = "return"

CallValidateResolution ==
    \E attachmentResolution \in RtResolutions :
        /\ rtOp \in { "none", "returned" }
        /\ rtOp' = "ValidateResolution"
        /\ rtArg' = [NoRtArg EXCEPT !.attachmentResolution = attachmentResolution]
        /\ rtOutcome' = ValidateResolution(rtResolution, attachmentResolution)
        /\ UNCHANGED rtResolution
        /\ UNCHANGED notRt

CallValidateMipResolution ==
    \E texture \in RtTextures, level \in 0 .. MaxLevel :
        /\ rtOp \in { "none", "returned" }
        /\ rtOp' = "ValidateMipResolution"
        /\ rtArg' = [NoRtArg EXCEPT !.texture = texture, !.mipLevel = level]
        /\ rtOutcome' = ValidateMipResolution(rtResolution, texture, level)
        /\ UNCHANGED rtResolution
        /\ UNCHANGED notRt

\* the call has returned; a trap ends the program
RtReturn ==
    /\ rtOp \in { "ValidateResolution", "ValidateMipResolution" }
    /\ rtOutcome = "return"
    /\ rtOp' = "returned"
    /\ rtArg' = NoRtArg
    /\ UNCHANGED << rtResolution, rtOutcome >>
    /\ UNCHANGED notRt

RtNext == CallValidateResolution \/ CallValidateMipResolution \/ RtReturn

----------------------------------------------------------------------------
(* sources/Renderer/OpenGL/Platform/Android/AndroidGLContext.cpp *)

\* the largest sample count asked for
MaxEglSamples == 2

EGL_NO_CONTEXT == [major |-> 0, minor |-> 0, debug |-> FALSE]

\* the attribute list of one iteration of SelectConfig, as far as the samples
\* go: the entries from EGL_SAMPLE_BUFFERS on are cut off for samples_ <= 1
ConfigAttribsKeepSamples(samples) ==
    [sampleBuffers |-> TRUE, samples |-> samples]

ConfigAttribs(samples) ==
    IF samples <= 1
        THEN [sampleBuffers |-> FALSE, samples |-> 0]
        ELSE [sampleBuffers |-> TRUE, samples |-> samples]

\* every attribute list a query can be made with
AllConfigAttribs ==
    { [sampleBuffers |-> FALSE, samples |-> 0] }
        \union { [sampleBuffers |-> TRUE, samples |-> s] : s \in 1 .. MaxEglSamples }

GetSamples == eglSamples_

GetGLESVersionNo(major, minor) == major * 100 + minor * 10

IsSupportedGLESVersion(version) ==
    version = 320 \/ version = 310 \/ version = 300 \/ version = 200

\* the versions of OpenGL ES there are contexts for
GLESVersions == { << 3, 2 >>, << 3, 1 >>, << 3, 0 >>, << 2, 0 >> }

\* CreateContext, "Set up EGL profile attributes": the version to start with,
\* or the trap for a version that is not supported
SetUpProfile(profile) ==
    IF ~(profile.majorVersion = 0 /\ profile.minorVersion = 0)
        THEN [major |-> profile.majorVersion,
              minor |-> profile.minorVersion,
              trap  |-> ~IsSupportedGLESVersion(
                            GetGLESVersionNo(profile.majorVersion, profile.minorVersion))]
        ELSE [major |-> 3, minor |-> 0, trap |-> FALSE]

\* CreateEGLContextForESVersion(major, minor, sharedEGLContext): with
\* LLGL_DEBUG a context with the debug attributes is tried first, and the
\* same version without them when that failed
CreateEGLContextForESVersion(major, minor, debugContexts) ==
    IF << major, minor >> \notin eglVersions
        THEN EGL_NO_CONTEXT
        ELSE [major |-> major, minor |-> minor,
              debug |-> eglDebugBuild /\ debugContexts]

\* the body of the loop of CreateContext after a failed attempt: the next
\* lower version, or the break
NextLowerVersion(major, minor) ==
    IF major = 3
        THEN IF minor > 0 /\ minor <= 2
                THEN [major |-> major, minor |-> minor - 1, break |-> FALSE]
                ELSE [major |-> major - 1, minor |-> minor, break |-> FALSE]
        ELSE [major |-> major, minor |-> minor, break |-> TRUE]

\* the profiles asked for
ProfileMajors == { 0, 2, 3 }
ProfileMinors == { -10, 0, 1, 2, 10 }
Profiles == [majorVersion : ProfileMajors, minorVersion : ProfileMinors]

EglIdle ==
    /\ eglConfigs = {}
    /\ eglVersions = {}
    /\ eglDebugBuild = FALSE
    /\ eglPixelFormat = [samples |-> 0]
    /\ eglProfile = [majorVersion |-> 0, minorVersion |-> 0]
    /\ eglPc = "idle"
    /\ eglSamples_ = 1
    /\ eglSelectConfigRet = "none"
    /\ eglQueries = << >>
    /\ eglMajor = 0
    /\ eglMinor = 0
    /\ eglAttempts = << >>
    /\ context_ = EGL_NO_CONTEXT
    /\ eglError = "none"

\* the constructor is about to call CreateContext(pixelFormat, profile, ...)
EglInit ==
    /\ eglConfigs \in SUBSET AllConfigAttribs
    /\ eglVersions \in SUBSET GLESVersions
    /\ eglDebugBuild \in BOOLEAN
    /\ eglPixelFormat \in [samples : 0 .. MaxEglSamples]
    /\ eglProfile \in Profiles
    /\ eglPc = "CreateContext"
    /\ eglSamples_ = 1
    /\ eglSelectConfigRet = "none"
    /\ eglQueries = << >>
    /\ eglMajor = 0
    /\ eglMinor = 0
    /\ eglAttempts = << >>
    /\ context_ = EGL_NO_CONTEXT
    /\ eglError = "none"

eglDevice == << eglConfigs, eglVersions, eglDebugBuild, eglPixelFormat, eglProfile >>

\* CreateContext up to the call of SelectConfig, and the initialisation of
\* the loop of SelectConfig
CreateContextBegin ==
    /\ eglPc = "CreateContext"
    /\ \E initialized \in BOOLEAN :
        IF ~initialized
            THEN /\ eglPc' = "trap"
                 /\ eglError' = "eglInitialize failed"
                 /\ UNCHANGED eglSamples_
            ELSE /\ eglPc' = "SelectConfig"
                 /\ eglSamples_' = Max2(1, eglPixelFormat.samples)
                 /\ UNCHANGED eglError
    /\ UNCHANGED << eglDevice, eglSelectConfigRet, eglQueries, eglMajor, eglMinor,
                    eglAttempts, context_ >>
    /\ UNCHANGED notEgl

\* one test of the loop condition of SelectConfig and, when it holds, one
\* iteration; CreateContext traps when SelectConfig returns false
SelectConfigIteration ==
    /\ eglPc = "SelectConfig"
    /\ IF eglSamples_ > 0
        THEN LET attribs == ConfigAttribs(eglSamples_)
             IN  /\ eglQueries' = Append(eglQueries, attribs)
                 /\ IF attribs \in eglConfigs
                        THEN /\ eglSelectConfigRet' = "true"
                             /\ eglPc' = "SetUpProfile"
                             /\ UNCHANGED eglSamples_
                        ELSE /\ eglSamples_' = eglSamples_ - 1
                             /\ UNCHANGED << eglSelectConfigRet, eglPc >>
                 /\ UNCHANGED eglError
        ELSE /\ eglSelectConfigRet' = "false"
             /\ eglPc' = "trap"
             /\ eglError' = "eglChooseConfig failed"
             /\ UNCHANGED << eglSamples_, eglQueries >>
    /\ UNCHANGED << eglDevice, eglMajor, eglMinor, eglAttempts, context_ >>
    /\ UNCHANGED notEgl

\* CreateContext from "Set up EGL profile attributes" to the loop
CreateContextProfile ==
    /\ eglPc = "SetUpProfile"
    /\ LET version == SetUpProfile(eglProfile)
       IN  /\ eglMajor' = version.major
           /\ eglMinor' = version.minor
           /\ IF version.trap
                THEN /\ eglPc' = "trap"
                     /\ eglError' = "cannot create GLES context for version"
                ELSE /\ eglPc' = "CreateEGLContext"
                     /\ UNCHANGED eglError
    /\ UNCHANGED << eglDevice, eglSamples_, eglSelectConfigRet, eglQueries,
                    eglAttempts, context_ >>
    /\ UNCHANGED notEgl

\* one evaluation of the loop condition of CreateContext (a call of
\* CreateEGLContextForESVersion) and, after a failure, the loop body; after
\* the loop CreateContext traps when there is no context
CreateContextIteration ==
    /\ eglPc = "CreateEGLContext"
    /\ \E debugContexts \in BOOLEAN :
        LET created == CreateEGLContextForESVersion(eglMajor, eglMinor, debugContexts)
            lower   == NextLowerVersion(eglMajor, eglMinor)
        IN  /\ eglAttempts' = Append(eglAttempts, << eglMajor, eglMinor >>)
            /\ context_' = created
            /\ IF created # EGL_NO_CONTEXT
                THEN /\ eglPc' = "done"
                     /\ UNCHANGED << eglMajor, eglMinor, eglError >>
                ELSE IF lower.break
                    THEN /\ eglPc' = "trap"
                         /\ eglError' = "eglCreateContext failed"
                         /\ UNCHANGED << eglMajor, eglMinor >>
                    ELSE /\ eglMajor' = lower.major
                         /\ eglMinor' = lower.minor
                         /\ UNCHANGED << eglPc, eglError >>
    /\ UNCHANGED << eglDevice, eglSamples_, eglSelectConfigRet, eglQueries >>
    /\ UNCHANGED notEgl

EglNext ==
    \/ CreateContextBegin
    \/ SelectConfigIteration
    \/ CreateContextProfile
    \/ CreateContextIteration

----------------------------------------------------------------------------
(* Core/UTF8String.cpp: the operations with a wide argument *)

RECURSIVE StringViewCompare(_, _)
\* StringView::compare(str): negative, zero or positive as the characters
\* of lhs, taken as unsigned, come before, equal or come after those of rhs
StringViewCompare(lhs, rhs) ==
    IF lhs = << >> THEN (IF rhs = << >> THEN 0 ELSE -1)
    ELSE IF rhs = << >> THEN 1
    ELSE IF Head(lhs) < Head(rhs) THEN -1
    ELSE IF Head(lhs) > Head(rhs) THEN 1
    ELSE StringViewCompare(Tail(lhs), Tail(rhs))

\* compare(const StringView& str)
compare(data, s) == StringViewCompare(Payload(data), s)

\* compare(const WStringView& str): the view compared with spans
\* utf8String.size() characters of the array the conversion returned
compareWStringView(data, w) ==
    LET utf8String == ConvertWStringViewToUTF8CharArray(w)
    IN  compare(data, SubSeq(utf8String, 1, Len(utf8String)))

\* operator += (const WStringView& rhs): append(utf8String.begin(), utf8String.end())
AddAssignWStringView(data, rhs) ==
    LET utf8String == ConvertWStringViewToUTF8CharArray(rhs)
    IN  appendRange(data, utf8String)

\* operator += (const wchar_t* rhs)
AddAssignWCString(data, rhs) ==
    LET utf8String == ConvertWStringViewToUTF8CharArray(UntilNul(rhs))
    IN  appendRange(data, utf8String)

\* operator += (wchar_t chr)
AddAssignWChar(data, chr) ==
    IF GetUTF8CharCount(chr) > 1
        THEN LET utf8String == ConvertWStringViewToUTF8CharArray(UntilNul(<< chr, 0 >>))
             IN  appendRange(data, utf8String)
        ELSE append(data, 1, ToChar(chr))

\* UTF8String(const WStringView&)
UTF8StringOfWide(w) == ConvertWStringViewToUTF8CharArray(w)

\* the wide strings w of the calls
WideArguments == SeqsUpTo(WChars, MaxWLen)

\* the strings s of the calls: constructed from wide and from narrow views
WideLhs ==
    { UTF8StringOfWide(w) : w \in WideArguments }
        \union { ConvertStringViewToCharArray(s) : s \in StringViews }

WideIdle ==
    /\ wsData = clear
    /\ wsBefore = clear
    /\ wsWide = << >>
    /\ wsOp = "idle"
    /\ wsRet = 0

\* a string s and a wide string w
WideInit ==
    /\ wsData \in WideLhs
    /\ wsBefore = wsData
    /\ wsWide \in WideArguments
    /\ wsOp = "none"
    /\ wsRet = 0

\* s += w with w a WStringView
CallAddAssignWStringView ==
    /\ wsOp = "none"
    /\ wsOp' = "AddAssignWStringView"
    /\ wsData' = AddAssignWStringView(wsData, wsWide)
    /\ UNCHANGED << wsBefore, wsWide, wsRet >>
    /\ UNCHANGED notWide

\* s += w with w a const wchar_t* (an array with a NUL after the characters)
CallAddAssignWCString ==
    /\ wsOp = "none"
    /\ wsOp' = "AddAssignWCString"
    /\ wsData' = AddAssignWCString(wsData, Append(wsWide, 0))
    /\ UNCHANGED << wsBefore, wsWide, wsRet >>
    /\ UNCHANGED notWide

\* s += chr with chr the one character of w
CallAddAssignWChar ==
    /\ wsOp = "none"
    /\ Len(wsWide) = 1
    /\ wsOp' = "AddAssignWChar"
    /\ wsData' = AddAssignWChar(wsData, wsWide[1])
    /\ UNCHANGED << wsBefore, wsWide, wsRet >>
    /\ UNCHANGED notWide

\* s.compare(w)
CallCompareWStringView ==
    /\ wsOp = "none"
    /\ wsOp' = "compare"
    /\ wsRet' = compareWStringView(wsData, wsWide)
    /\ UNCHANGED << wsData, wsBefore, wsWide >>
    /\ UNCHANGED notWide

WideNext ==
    \/ CallAddAssignWStringView
    \/ CallAddAssignWCString
    \/ CallAddAssignWChar
    \/ CallCompareWStringView

----------------------------------------------------------------------------
(* Specifications *)

\* the texture functions applied to a descriptor
TexSpecInit ==
    /\ TexInit
    /\ StrIdle
    /\ ListIdle
    /\ ModeIdle
    /\ SampleIdle
    /\ SwapIdle
    /\ RecIdle
    /\ PathIdle
    /\ RtIdle
    /\ EglIdle
    /\ WideIdle

TexSpec == TexSpecInit /\ [][TexNext]_vars

\* the operations of UTF8String on two strings
StringSpecInit ==
    /\ StrInit
    /\ TexIdle
    /\ ListIdle
    /\ ModeIdle
    /\ SampleIdle
    /\ SwapIdle
    /\ RecIdle
    /\ PathIdle
    /\ RtIdle
    /\ EglIdle
    /\ WideIdle

StringSpec == StringSpecInit /\ [][StrNext]_vars

\* a wide string converted to UTF-8 and back
ConvSpecInit ==
    /\ ConvInit
    /\ TexIdle
    /\ ListIdle
    /\ ModeIdle
    /\ SampleIdle
    /\ SwapIdle
    /\ RecIdle
    /\ PathIdle
    /\ RtIdle
    /\ EglIdle
    /\ WideIdle

ConvSpec == ConvSpecInit /\ [][ConvNext]_vars

\* hot-plugs of screens interleaved with Display::GetList and GetPrimary
DisplayListSpecInit ==
    /\ ListInit
    /\ TexIdle
    /\ StrIdle
    /\ ModeIdle
    /\ SampleIdle
    /\ SwapIdle
    /\ RecIdle
    /\ PathIdle
    /\ RtIdle
    /\ EglIdle
    /\ WideIdle

DisplayListSpec == DisplayListSpecInit /\ [][ListNext]_vars

\* the display-mode functions called on a screen
DisplayModeSpecInit ==
    /\ ModeInit
    /\ TexIdle
    /\ StrIdle
    /\ ListIdle
    /\ SampleIdle
    /\ SwapIdle
    /\ RecIdle
    /\ PathIdle
    /\ RtIdle
    /\ EglIdle
    /\ WideIdle

DisplayModeSpec == DisplayModeSpecInit /\ [][ModeNext]_vars

\* an example program from its start to the creation of its pipelines
SampleSpecInit ==
    /\ SampleInit
    /\ TexIdle
    /\ StrIdle
    /\ ListIdle
    /\ ModeIdle
    /\ SwapIdle
    /\ RecIdle
    /\ PathIdle
    /\ RtIdle
    /\ EglIdle
    /\ WideIdle

SampleSpec == SampleSpecInit /\ [][SampleNext]_vars

\* swap chains constructed, resized and made current
SwapChainSpecInit ==
    /\ SwapInit
    /\ TexIdle
    /\ StrIdle
    /\ ListIdle
    /\ ModeIdle
    /\ SampleIdle
    /\ RecIdle
    /\ PathIdle
    /\ RtIdle
    /\ EglIdle
    /\ WideIdle

SwapChainSpec == SwapChainSpecInit /\ [][SwapNext]_vars

\* the example programs and the test making their calls, frame by frame
RecordSpecInit ==
    /\ RecInit
    /\ TexIdle
    /\ StrIdle
    /\ ListIdle
    /\ ModeIdle
    /\ SampleIdle
    /\ SwapIdle
    /\ PathIdle
    /\ RtIdle
    /\ EglIdle
    /\ WideIdle

RecordSpec == RecordSpecInit /\ [][RecNext]_vars

\* swap chains constructed, resized, made current and given a vsync interval
VsyncSpec == SwapChainSpecInit /\ [][SwapNext \/ SetVsyncInterval]_vars

\* paths sanitized, and sanitized again
PathSpecInit ==
    /\ PathInit
    /\ TexIdle
    /\ StrIdle
    /\ ListIdle
    /\ ModeIdle
    /\ SampleIdle
    /\ SwapIdle
    /\ RecIdle
    /\ RtIdle
    /\ EglIdle
    /\ WideIdle

PathSpec == PathSpecInit /\ [][PathNext]_vars

\* a render target validating the resolution of attachments
RenderTargetSpecInit ==
    /\ RtInit
    /\ ListIdle
    /\ ModeIdle
    /\ PathIdle
    /\ RecIdle
    /\ SampleIdle
    /\ StrIdle
    /\ SwapIdle
    /\ TexIdle
    /\ EglIdle
    /\ WideIdle

RenderTargetSpec == RenderTargetSpecInit /\ [][RtNext]_vars

\* an AndroidGLContext under construction
AndroidContextSpecInit ==
    /\ EglInit
    /\ ListIdle
    /\ ModeIdle
    /\ PathIdle
    /\ RecIdle
    /\ RtIdle
    /\ SampleIdle
    /\ StrIdle
    /\ SwapIdle
    /\ TexIdle
    /\ WideIdle

\* CreateContext runs on until it returns or traps
AndroidContextSpec ==
    AndroidContextSpecInit /\ [][EglNext]_vars /\ WF_vars(EglNext)

\* a UTF8String s and a wide string w
WideStringSpecInit ==
    /\ WideInit
    /\ EglIdle
    /\ ListIdle
    /\ ModeIdle
    /\ PathIdle
    /\ RecIdle
    /\ RtIdle
    /\ SampleIdle
    /\ StrIdle
    /\ SwapIdle
    /\ TexIdle

WideStringSpec == WideStringSpecInit /\ [][WideNext]_vars

Init ==
    \/ WideStringSpecInit
    \/ AndroidContextSpecInit
    \/ RenderTargetSpecInit
    \/ PathSpecInit
    \/ RecordSpecInit
    \/ SwapChainSpecInit
    \/ SampleSpecInit
    \/ TexSpecInit
    \/ StringSpecInit
    \/ ConvSpecInit
    \/ DisplayListSpecInit
    \/ DisplayModeSpecInit

Next == TexNext \/ StrNext \/ ConvNext \/ ListNext \/ ModeNext \/ SampleNext \/ SwapNext
            \/ RecNext \/ SetVsyncInterval \/ PathNext \/ RtNext \/ EglNext \/ WideNext

Spec == Init /\ [][Next]_vars

----------------------------------------------------------------------------
(* The claims *)

TheExtent == textureDesc.extent
TheType == textureDesc.type

\* the level of the last GetMipExtent call is one GetMipExtent serves
InRange == mipLevel < NumMipLevelsType(TheType, TheExtent)

CalledGetMipExtent == call \in { "GetMipExtent", "GetMipExtentDesc" }

\* C1: every string's buffer holds at least the terminator, its length is
\* size()+1 and c_str()[size()] is NUL, after every sequence of constructions,
\* append, resize, clear, operator+= and copy/move assignments, for the target
\* and for the moved-from source.
C1_BufferInvariant ==
    \A i \in Strings :
        /\ Len(str[i]) >= 1
        /\ Len(str[i]) = Size(str[i]) + 1
        /\ str[i][Size(str[i]) + 1] = 0

\* C1: a move assignment has left string 2 moved-from and string 1 with payload
C1_Witness ==
    /\ op = "move"
    /\ str[2] = << 0 >>
    /\ Size(str[1]) > 0

\* C2: constructing from a wide string whose code points are all in
\* [U+0000, U+FFFF] and converting back with to_utf16() yields the code points
\* followed by the NUL terminator.
C2_RoundTrip ==
    (op = "to_utf16" /\ \A k \in 1 .. Len(wide) : wide[k] <= 65535) =>
        /\ ~utf16.trap
        /\ ~utf16.overrun
        /\ utf16.chars = Append(wide, 0)

MaxSize == Max2(TheExtent.x, Max2(TheExtent.y, TheExtent.z))

\* C3: NumMipLevels(width, height, depth) is 1 + floor(log2(max)) for max >= 1:
\* the n with 2^(n-1) <= max < 2^n; k+1 when max = 2^k, 1 when max = 1 and 7
\* for {64,64,1}.
C3_NumMipLevels ==
    (call = "NumMipLevels" /\ MaxSize >= 1) =>
        /\ ret >= 1
        /\ 2 ^ (ret - 1) <= MaxSize
        /\ MaxSize < 2 ^ ret
        /\ \A k \in 0 .. 6 : MaxSize = 2 ^ k => ret = k + 1
        /\ MaxSize = 1 => ret = 1
        /\ TheExtent = Extent3D(64, 64, 1) => ret = 7

\* C3: NumMipLevels(64, 64, 1) returned 7
C3_Witness ==
    /\ call = "NumMipLevels"
    /\ TheExtent = Extent3D(64, 64, 1)
    /\ ret = 7

\* C4: GetMipExtent(type, extent, L) is the zero extent for every level
\* L >= NumMipLevels(type, extent), for every texture type and extent.
C4_OutOfRangeIsZero ==
    (call = "GetMipExtent" /\ mipLevel >= NumMipLevelsType(TheType, TheExtent)) =>
        ret = ZeroExtent

\* C4: level 7 of a 2D texture of extent {64,64,1}, which has 7 levels
C4_Witness ==
    /\ call = "GetMipExtent"
    /\ TheType = "Texture2D"
    /\ TheExtent = Extent3D(64, 64, 1)
    /\ mipLevel = 7
    /\ ret = ZeroExtent

Shifted(dimension, level) ==
    IF dimension \div (2 ^ level) >= 1 THEN dimension \div (2 ^ level) ELSE 1

\* C6: for Texture1D, Texture2D and Texture3D and every in-range level, each
\* component of GetMipExtent that belongs to the type is max(1, dimension >> L)
\* and every other component is 1; the last level is {1,1,1}.
C6_MipExtentOfPlainTypes ==
    (CalledGetMipExtent /\ TheType \in { "Texture1D", "Texture2D", "Texture3D" } /\ InRange) =>
        /\ ret.x = Shifted(TheExtent.x, mipLevel)
        /\ ret.y = (IF TheType = "Texture1D" THEN 1 ELSE Shifted(TheExtent.y, mipLevel))
        /\ ret.z = (IF TheType = "Texture3D" THEN Shifted(TheExtent.z, mipLevel) ELSE 1)
        /\ mipLevel = NumMipLevelsType(TheType, TheExtent) - 1 => ret = Extent3D(1, 1, 1)

\* C6: level 6 of a 2D texture of extent {64,64,1}
C6_Witness ==
    /\ call = "GetMipExtent"
    /\ TheType = "Texture2D"
    /\ TheExtent = Extent3D(64, 64, 1)
    /\ mipLevel = 6
    /\ ret = Extent3D(1, 1, 1)

\* C7: NumMipLevels(descriptor) is 1 for Texture2DMS and Texture2DMSArray,
\* whatever the descriptor's mipLevels field holds.
C7_MultiSampleHasOneLevel ==
    (call = "NumMipLevelsDesc" /\ IsMultiSampleTexture(TheType)) => ret = 1

\* C8: for a cube texture the third component of GetMipExtent is 6 at every
\* in-range level, in both overloads, whatever the z of the input extent.
C8_CubeHasSixFaces ==
    (CalledGetMipExtent /\ TheType = "TextureCube" /\ InRange) => ret.z = 6

\* the array layers GetMipExtent was asked about: the z of the extent, or the
\* arrayLayers of the descriptor
RequestedLayers ==
    IF call = "GetMipExtentDesc" THEN textureDesc.arrayLayers ELSE TheExtent.z

\* the smallest multiple of 6 that is >= n
UpToMultipleOf6(n) ==
    CHOOSE m \in 0 .. n + 6 :
        /\ m % 6 = 0
        /\ m >= n
        /\ \A k \in 0 .. n + 6 : (k % 6 = 0 /\ k >= n) => m <= k

\* C9: for a TextureCubeArray the layer component of GetMipExtent is, at every
\* in-range level and in both overloads, the smallest multiple of 6 that is >=
\* the requested array layers.
C9_CubeArrayLayersAligned ==
    (CalledGetMipExtent /\ TheType = "TextureCubeArray" /\ InRange) =>
        ret.z = UpToMultipleOf6(RequestedLayers)

\* the component of an extent that counts the array layers of the type
LayerComponent(type, extent) ==
    IF type = "Texture1DArray" THEN extent.y ELSE extent.z

\* what the overload last called returns for level 0
AtLevelZero ==
    IF call = "GetMipExtentDesc"
        THEN GetMipExtentDesc(textureDesc, 0)
        ELSE GetMipExtent(TheType, TheExtent, 0)

\* the layer count the overload last called starts from: the extent's layer
\* component, or the descriptor's arrayLayers (aligned for a cube array)
LayersGiven ==
    IF call = "GetMipExtent" THEN LayerComponent(TheType, TheExtent)
    ELSE IF TheType = "TextureCubeArray" THEN GetAlignedSize(textureDesc.arrayLayers, 6)
    ELSE textureDesc.arrayLayers

\* C10: for the array types the layer component of GetMipExtent is, at every
\* in-range level, the layer component of level 0: the layer count given, never
\* shifted by the level.
C10_LayersKeptAcrossLevels ==
    (CalledGetMipExtent /\ IsArrayTexture(TheType) /\ InRange) =>
        /\ LayerComponent(TheType, ret) = LayerComponent(TheType, AtLevelZero)
        /\ LayerComponent(TheType, ret) = LayersGiven

\* C10: level 3 of a 2D array texture with MaxLayers layers
C10_Witness ==
    /\ call = "GetMipExtentDesc"
    /\ TheType = "Texture2DArray"
    /\ mipLevel = 3
    /\ InRange
    /\ textureDesc.arrayLayers = MaxLayers
    /\ ret.z = MaxLayers

\* the texels of MIP level level of the texture with this many array layers:
\* the product of max(1, dimension >> level) over the dimensions of the type
\* and of the layer count, and none for a level the texture does not have
TexelsOfLevel(level, layers) ==
    LET w == Shifted(TheExtent.x, level)
        h == Shifted(TheExtent.y, level)
        d == Shifted(TheExtent.z, level)
    IN  IF level >= NumMipLevelsType(TheType, TheExtent) THEN 0
        ELSE CASE TheType = "Texture1D"        -> w
               [] TheType = "Texture2D"        -> w * h
               [] TheType = "Texture3D"        -> w * h * d
               [] TheType = "Texture1DArray"   -> w * layers
               [] TheType = "Texture2DMS"      -> TheExtent.x * TheExtent.y
               [] TheType = "Texture2DMSArray" -> TheExtent.x * TheExtent.y * layers
               [] OTHER                        -> w * h * layers

RECURSIVE TexelsOfLevels(_, _)
\* the sum of TexelsOfLevel over a set of levels
TexelsOfLevels(levels, layers) ==
    IF levels = { } THEN 0
    ELSE LET level == CHOOSE l \in levels : TRUE
         IN  TexelsOfLevel(level, layers) + TexelsOfLevels(levels \ { level }, layers)

\* C11: NumMipTexels(type, extent, subresource) is the sum, over the levels
\* baseMipLevel .. baseMipLevel+numMipLevels-1, of width*height*depth of the MIP
\* extent of the level for the subresource's array-layer count, each level
\* counted once; NumMipTexels(descriptor, ~0) is that sum over the levels
\* 0 .. NumMipLevels(descriptor)-1 for the descriptor's array layers.
C11_NumMipTexels ==
    /\ call = "NumMipTexelsSubresource" =>
        ret = TexelsOfLevels(subresource.baseMipLevel ..
                                subresource.baseMipLevel + subresource.numMipLevels - 1,
                             subresource.numArrayLayers)
    /\ (call = "NumMipTexelsDesc" /\ mipLevel = AllMipLevels
            /\ NumMipLevelsDesc(textureDesc) <= 32) =>
        ret = TexelsOfLevels(0 .. NumMipLevelsDesc(textureDesc) - 1,
                             textureDesc.arrayLayers)

\* C11: levels 5 and 6 of a 64x64 2D array texture, for 6 of its layers: 2*2*6
\* and 1*1*6 texels
C11_Witness ==
    /\ call = "NumMipTexelsSubresource"
    /\ TheType = "Texture2DArray"
    /\ TheExtent.x = 64
    /\ TheExtent.y = 64
    /\ subresource.baseMipLevel = 5
    /\ subresource.numMipLevels = 2
    /\ subresource.numArrayLayers = 6
    /\ ret = 30

\* the display at address a is owned by a unique_ptr of g_displayList
Owned(a) == a \in Range(g_displayList) /\ a \in DOMAIN displayObjects

\* C12: after any sequence of hot-plugs, GetList and GetPrimary calls, the list
\* GetList returns has exactly one entry per attached screen, and every entry
\* refers to a display the display list still owns, never to a destroyed one.
C12_GetListIsCurrent ==
    displayCall = "GetList" =>
        /\ Len(displayRet) = screenCount
        /\ \A k \in 1 .. Len(displayRet) :
            /\ Owned(displayRet[k])
            /\ displayObjects[displayRet[k]] = k - 1

\* C13: after any sequence of hot-plugs, GetList and GetPrimary calls,
\* GetPrimary returns null when no screen is attached, and otherwise a display
\* the display list owns and for which IsPrimary() is true.
C13_GetPrimaryIsPrimary ==
    displayCall = "GetPrimary" =>
        \/ displayRet = NullDisplay /\ screenCount = 0
        \/ displayRet # NullDisplay /\ Owned(displayRet) /\ IsPrimary(displayRet)

Supported(mode) ==
    \E i \in 1 .. Len(scrSizes) :
        /\ scrSizes[i] = mode.resolution
        /\ mode.refreshRate \in Range(scrRates[i])

\* C15: SetDisplayMode(mode) returns true on success, the display then using
\* the mode; when the display does not support the mode it returns false and
\* the display configuration is as before; a mode is never partially applied:
\* a call that returns false has changed nothing.
C15_SetDisplayMode ==
    [][ (modeCall = "none" /\ modeCall' \in { "SetDisplayMode", "AndroidSetDisplayMode" }) =>
            /\ modeRet' = TRUE => screenConfig' = modeArg'
            /\ modeRet' = FALSE => screenConfig' = screenConfig
            /\ (modeCall' = "SetDisplayMode" /\ ~Supported(modeArg')) =>
                    (modeRet' = FALSE /\ screenConfig' = screenConfig) ]_vars

\* C16: the sample count the swap chain and the pipelines are created with is
\* min(requested, maxColorBufferSamples), 8 for 16 requested with a maximum of
\* 8; on OpenGL the requested count goes unchanged into the swap-chain
\* descriptor and is clamped at swap-chain creation.
C16_SampleNegotiation ==
    LET effective == Min2(g_Config.samples, maxColorBufferSamples)
    IN  /\ examplePc \in { "constructed", "pipelines" } =>
            /\ swapChainSamples = effective
            /\ rendererID = "OpenGL" => swapChainDesc.samples = g_Config.samples
        /\ examplePc = "pipelines" =>
            /\ pipelineSamples = effective
            /\ multiSampleEnabled = (effective > 1)

\* C17: every GLSwapChain caches the height of its current resolution, and
\* after its construction and after each ResizeBuffers the state manager of
\* its context has been reset to that height; resizing 800x600 to 1920x1080
\* makes GetResolution() 1920x1080 and the cached height 1080.
C17_FramebufferHeight ==
    /\ \A i \in 1 .. MaxSwapChains :
            swapChains[i].created =>
                swapChains[i].framebufferHeight_ = GetResolution(i).y
    /\ swapCall.op \in { "GLSwapChain", "ResizeBuffers" } =>
            stateMngrHeight[swapChains[swapCall.swapChain].context_]
                = GetResolution(swapCall.swapChain).y

C17_Witness ==
    /\ swapCall.op = "ResizeBuffers"
    /\ swapCall.before = Extent2D(800, 600)
    /\ GetResolution(swapCall.swapChain) = Extent2D(1920, 1080)
    /\ swapChains[swapCall.swapChain].framebufferHeight_ = 1080
    /\ stateMngrHeight[swapChains[swapCall.swapChain].context_] = 1080

C19_MappingDiscipline ==
    [][ /\ lastCall'.call = "MapBuffer" => mapping.access = "none"
        /\ lastCall'.call \in { "Begin", "Submit" } => mapping.access = "none"
        /\ mapping'.access # "none" =>
                /\ program' # << >>
                /\ Head(program').call \in { "Write", "Read", "UnmapBuffer" } ]_vars

C19_Witness ==
    /\ app = "Mapping"
    /\ frame = MaxFrames
    /\ lastCall.call = "UnmapBuffer"
    /\ mapping.access = "none"
    /\ Head(program).call = "NextTexture"

\* C20: commands are encoded only while the command buffer is recording, a
\* render pass is begun only outside and ended only inside a render pass, End
\* is called with no render pass open, draw calls are encoded inside a render
\* pass after SetPipelineState, and Submit is called on an ended command
\* buffer.
C20_RecordingBracketed ==
    [][ LET made == lastCall'.call
        IN  /\ made \in EncodeCalls \cup DrawCalls
                    \cup { "BeginRenderPass", "EndRenderPass", "SetPipelineState", "End" }
                => cmdState = "recording"
            /\ made = "BeginRenderPass" => renderPasses = 0
            /\ made = "EndRenderPass" => renderPasses = 1
            /\ made = "End" => renderPasses = 0
            /\ made \in DrawCalls => (renderPasses = 1 /\ pipelineSet)
            /\ made = "Submit" => cmdState = "executable" ]_vars

C20_Witness ==
    /\ app = "Mapping"
    /\ lastCall.call = "Submit"
    /\ frame = 1
    /\ program = << >>
    /\ Len(encoded) = 8
    /\ encoded[7].call = "Draw"

\* C21: a SetVsyncInterval that returns false changes nothing: the swap
\* intervals, the swap chains and the tracked heights stay as they were, and
\* the swap chain whose context is current is the one that was current before.
C21_VsyncSoftFailure ==
    [][ (swapCall'.op = "SetVsyncInterval" /\ vsyncRet' = FALSE) =>
            /\ swapIntervals' = swapIntervals
            /\ swapChains' = swapChains
            /\ stateMngrHeight' = stateMngrHeight
            /\ currentSwapChain' = currentSwapChain
            /\ currentStateMngr' = currentStateMngr ]_vars

RECURSIVE Components(_, _, _)
\* the entries of a path: the characters between its separators
Components(q, k, entry) ==
    IF k > Len(q) THEN << entry >>
    ELSE IF q[k] = GetSeparator
        THEN << entry >> \o Components(q, k + 1, << >>)
        ELSE Components(q, k + 1, Append(entry, q[k]))

\* a path as Path::Sanitize is to return it: no wrong separator, no trailing
\* separator, no directory entry followed by ".."
IsSanitized(q) ==
    LET entries == Components(q, 1, << >>)
    IN  /\ \A k \in 1 .. Len(q) : q[k] # Backslash
        /\ (Len(q) > 1 => q[Len(q)] # GetSeparator)
        /\ \A k \in 2 .. Len(entries) :
                entries[k] = << Dot, Dot >> =>
                    entries[k - 1] \in { << >>, << Dot >>, << Dot, Dot >> }

\* C22: Path::Sanitize returns a path without wrong separators, without
\* redundant upper-level entries and without trailing separators ("Bar" for
\* "Foo/../Bar/"), and returns a sanitized path unchanged.
C22_Sanitize ==
    pathOp \in { "Sanitize", "Sanitize again" } =>
        /\ IsSanitized(Payload(pathRet))
        /\ Payload(pathArg) = FooUpBar => Payload(pathRet) = Bar
        /\ IsSanitized(Payload(pathArg)) => pathRet = pathArg

\* C23: ValidateResolution ends in a trap exactly when the attachment
\* resolution has a zero width or height or differs from GetResolution();
\* ValidateMipResolution with a MIP level at or beyond the level count of the
\* texture always ends in a trap.
C23_ValidateResolution ==
    /\ rtOp = "ValidateResolution" =>
            (rtOutcome = "trap" <=>
                \/ rtArg.attachmentResolution.x = 0
                \/ rtArg.attachmentResolution.y = 0
                \/ rtArg.attachmentResolution # rtResolution)
    /\ (/\ rtOp = "ValidateMipResolution"
        /\ rtArg.mipLevel >= NumMipLevelsType(rtArg.texture.type, rtArg.texture.extent))
            => rtOutcome = "trap"

C23_Witness ==
    /\ rtOp = "ValidateMipResolution"
    /\ rtResolution = Extent2D(0, 0)
    /\ rtArg.texture = [type |-> "Texture2D", extent |-> Extent3D(64, 64, 1)]
    /\ rtArg.mipLevel = 7
    /\ rtOutcome = "trap"

\* the versions 3.2, 3.1, 3.0 and 2.0 as profiles
SupportedProfiles ==
    { [majorVersion |-> v[1], minorVersion |-> v[2]] : v \in GLESVersions }

\* CreateContext went past the test of the version
ProfileAccepted ==
    \/ eglPc \in { "CreateEGLContext", "done" }
    \/ eglPc = "trap" /\ eglError = "eglCreateContext failed"

\* C24: CreateContext goes on with a profile other than (0,0) only if the
\* profile is one of 3.2, 3.1, 3.0 and 2.0, and traps at the test of the
\* version for every other profile; with the profile (0,0) the first version
\* tried is 3.0.
C24_ProfileValidation ==
    /\ (ProfileAccepted /\ eglProfile # [majorVersion |-> 0, minorVersion |-> 0])
            => eglProfile \in SupportedProfiles
    /\ (eglPc = "trap" /\ eglError = "cannot create GLES context for version")
            => eglProfile \notin SupportedProfiles
    /\ (ProfileAccepted /\ eglProfile = [majorVersion |-> 0, minorVersion |-> 0])
            => /\ eglAttempts = << >> => << eglMajor, eglMinor >> = << 3, 0 >>
               /\ eglAttempts # << >> => eglAttempts[1] = << 3, 0 >>

\* the version CreateContext starts with
RequestedVersion ==
    IF eglProfile = [majorVersion |-> 0, minorVersion |-> 0]
        THEN << 3, 0 >>
        ELSE << eglProfile.majorVersion, eglProfile.minorVersion >>

\* the order of the fallback
VersionOrder == << << 3, 2 >>, << 3, 1 >>, << 3, 0 >>, << 2, 0 >> >>

\* attempts is a piece of VersionOrder without gaps
IsFallbackSequence(attempts) ==
    \E first \in 1 .. Len(VersionOrder) :
        /\ first + Len(attempts) - 1 <= Len(VersionOrder)
        /\ \A i \in 1 .. Len(attempts) : attempts[i] = VersionOrder[first + i - 1]

C25_Fallback ==
    /\ eglAttempts # << >> =>
            /\ eglAttempts[1] = RequestedVersion
            /\ IsFallbackSequence(eglAttempts)
    /\ \A i, j \in 1 .. Len(eglAttempts) : i # j => eglAttempts[i] # eglAttempts[j]
    /\ \A i \in 1 .. Len(eglAttempts) - 1 : eglAttempts[i] \notin eglVersions
    /\ eglPc = "done" =>
            /\ eglAttempts[Len(eglAttempts)] \in eglVersions
            /\ << context_.major, context_.minor >> = eglAttempts[Len(eglAttempts)]
    /\ (eglPc = "trap" /\ eglError = "eglCreateContext failed") =>
            /\ eglAttempts[Len(eglAttempts)] = << 2, 0 >>
            /\ << 2, 0 >> \notin eglVersions

\* C25: the fallback loop of CreateContext ends; the versions tried are a
\* piece of 3.2, 3.1, 3.0, 2.0 that starts at the requested version, the next
\* one is tried only after the one before failed, the loop stops at the first
\* success, the failure is reported only after the attempt for 2.0 failed,
\* and no version is tried twice.
C25_FallbackLoop ==
    /\ []C25_Fallback
    /\ (eglPc = "CreateEGLContext") ~> (eglPc \in { "done", "trap" })

\* the sample counts SelectConfig is to try
SampleCandidates == 1 .. Max2(1, eglPixelFormat.samples)

\* the query for the sample count: without sample attributes up to 1
QuerySucceeds(s) ==
    IF s <= 1
        THEN [sampleBuffers |-> FALSE, samples |-> 0] \in eglConfigs
        ELSE [sampleBuffers |-> TRUE, samples |-> s] \in eglConfigs

C26_Samples ==
    /\ eglSelectConfigRet = "true" =>
            /\ GetSamples \in SampleCandidates
            /\ QuerySucceeds(GetSamples)
            /\ \A s \in SampleCandidates : s > GetSamples => ~QuerySucceeds(s)
    /\ eglSelectConfigRet = "false" =>
            \A s \in SampleCandidates : ~QuerySucceeds(s)
    /\ \A i \in 1 .. Len(eglQueries) :
            /\ eglQueries[i].samples <= 1 => ~eglQueries[i].sampleBuffers
            /\ eglQueries[i].sampleBuffers =>
                    eglQueries[i].samples = Max2(1, eglPixelFormat.samples) - i + 1

\* C26: SelectConfig ends; when it returns true, GetSamples() is the largest
\* sample count from 1 to max(1, requested samples) the configuration query
\* succeeds for; it returns false only if the query fails for every such
\* count; the queries for a count of at most 1 have no sample attributes.
C26_SelectConfig ==
    /\ []C26_Samples
    /\ (eglPc = "SelectConfig") ~> (eglPc # "SelectConfig")

C26_Witness ==
    /\ eglSelectConfigRet = "true"
    /\ eglPixelFormat.samples = 2
    /\ [sampleBuffers |-> TRUE, samples |-> 2] \notin eglConfigs
    /\ Len(eglQueries) = 2
    /\ GetSamples = 1

\* the wide string an append was called with: a const wchar_t* ends at its
\* first NUL
WideArgument == IF wsOp = "AddAssignWCString" THEN UntilNul(wsWide) ELSE wsWide

\* C27: after s += w with a wide w (WStringView, const wchar_t* or wchar_t)
\* the string is the old content followed by the bytes of UTF8String(w) and
\* one NUL terminator, and size() has grown by UTF8String(w).size().
C27_WideAppend ==
    wsOp \in { "AddAssignWStringView", "AddAssignWCString", "AddAssignWChar" } =>
        /\ wsData = Payload(wsBefore) \o UTF8StringOfWide(WideArgument)
        /\ Size(wsData) = Size(wsBefore) + Size(UTF8StringOfWide(WideArgument))

Sign(x) == IF x < 0 THEN -1 ELSE IF x > 0 THEN 1 ELSE 0

\* C28: s.compare(w) has the sign of s.compare(StringView of UTF8String(w)),
\* and is 0 when s is UTF8String(w).
C28_WideCompare ==
    wsOp = "compare" =>
        /\ Sign(wsRet) = Sign(compare(wsData, Payload(UTF8StringOfWide(wsWide))))
        /\ wsData = UTF8StringOfWide(wsWide) => wsRet = 0

\* C29: GetMipExtent(descriptor, L) is a non-zero extent exactly when
\* L < NumMipLevels(descriptor), whatever the mipLevels field of the
\* descriptor holds.
C29_DescriptorMipRange ==
    call = "GetMipExtentDesc" =>
        (ret # ZeroExtent <=> mipLevel < NumMipLevelsDesc(textureDesc))

\* the state manager in use tracks the height the current swap chain caches
C30_CurrentHeight ==
    currentSwapChain # 0 =>
        stateMngrHeight[currentStateMngr]
            = swapChains[currentSwapChain].framebufferHeight_

\* C30: with several GLSwapChains the framebuffer height of the state manager
\* in use is always the cached height of the current swap chain; a
\* ResizeBuffers of a swap chain that is not current leaves that height as it
\* was, and MakeCurrent(nullptr) changes no tracked height.
C30_TrackedHeight ==
    /\ []C30_CurrentHeight
    /\ [][ /\ (/\ swapCall'.op = "ResizeBuffers"
               /\ currentSwapChain # 0
               /\ swapCall'.swapChain # currentSwapChain)
                    => stateMngrHeight'[currentStateMngr]
                            = stateMngrHeight[currentStateMngr]
           /\ (swapCall'.op = "MakeCurrent" /\ swapCall'.swapChain = 0)
                    => stateMngrHeight' = stateMngrHeight ]_vars

=============================================================================
